---- MODULE Spec2Model ----
(***************************************************************************)
(* State-machine model of the MCP tool server:                             *)
(*   - the Redis lease used by the Celery ingestion task                   *)
(*     (src/src/services/worker.py: RedisLock, ingest_tool_task),          *)
(*   - the PostgreSQL advisory lock helper (src/src/helpers/pg_lock.py),   *)
(*   - the tool registry's invocation slots (src/manual/registry.py),      *)
(*   - the CSV ingestion orchestrator and row pipeline                     *)
(*     (src/src/app/tool/tools/rag/rag.py, .../managers/ingest_manager.py, *)
(*      src/manual/managers/file_manager.py).                              *)
(*   - the csv_rows table under bulk_upsert_rows (rag/crud/crud_row.py),   *)
(*   - tool start-up: initialize_all and wait_until_ready                  *)
(*     (src/manual/registry.py),                                           *)
(*   - re-registration of a tool and get_status (src/manual/registry.py),  *)
(*   - the stdio transport's tools/call and tools/cancel                   *)
(*     (src/manual/transports/stdio.py).                                   *)
(* Each part has its own specifications (SpecLease, SpecAdvisory,          *)
(* SpecRegistry, SpecIngest, SpecResume, SpecManual, SpecUpsert,           *)
(* SpecStartup, SpecCalls, SpecRereg, SpecStdio, ...); a specification     *)
(* leaves the variables of the other parts at their initial values.        *)
(***************************************************************************)
EXTENDS Integers, Sequences, FiniteSets, TLC

VARIABLES
    \* ---- Redis lease (worker.py) ----
    redis,          \* the lock key in Redis: [val |-> owner or NoOwner, ttl |-> remaining ticks]
    taskPc,         \* position of each ingest_tool_task delivery
    isAcquired,     \* RedisLock._is_acquired of each task's lock object
    stopEvent,      \* RedisLock._stop_event of each task's lock object
    renewPc,        \* position of each lock's renewal thread (_renew_loop)
    taskResult,     \* what ingest_tool_task returned / raised
    runningTaskId,  \* running_task_id carried by a "running" response
    \* ---- tool registry (manual/registry.py) ----
    entry,          \* the ToolEntry registered under the tool's name, or NoEntry
    callPc,         \* position of each caller of invoke_slot
    calls,          \* number of invocations each caller has started
    delayed,        \* history: callers whose current invocation had to wait for a permit
    \* ---- PostgreSQL advisory lock (helpers/pg_lock.py) ----
    pgLock,         \* the session holding the advisory lock of the key, or NoSession
    advPc,          \* position of each session inside advisory_lock
    advWait,        \* the `wait` argument of the session's call
    advRetries,     \* the `retries` argument of the session's call
    advAttempt,     \* the local `attempt`
    advAcquired,    \* truth value of the local `acquired`
    advTries,       \* history: lock statements the call has executed
    advGranted,     \* history: the server granted the lock to this call
    advUnlocked,    \* history: the call executed pg_advisory_unlock
    \* ---- CSV ingestion (rag/rag.py, rag/managers/ingest_manager.py) ----
    csvFile,        \* the CSVFile row of the folder's file
    csvRows,        \* the CSVRow table, by row checksum
    vsIndex,        \* row ids whose chunks were written to the vector store
    diskVersion,    \* fingerprint of the file's current content on disk
    ingPc,          \* position of each process inside ingest_folder
    runsLeft,       \* ingest_folder calls each process still makes
    fileMeta,       \* the file_meta dict held by each process
    rowCounter,     \* RowStreamer's row_counter
    streamPos,      \* rows the process has read from the CSV stream
    buffer,         \* the batch being processed (positions of its rows in the file)
    outcomes,       \* history: how each batch of the current ingest_rows call ended
    \* ---- the csv_rows table under bulk_upsert_rows (rag/crud/crud_row.py) ----
    rowTable,       \* the rows of csv_rows
    rowSeq,         \* last value drawn from the id sequence of csv_rows
    upsertRet,      \* the mapping the last call returned, or Raised
    firstId,        \* history: the id returned by the first upsert of each checksum
    lastUpsert,     \* history: the columns of the most recent upsert of each checksum
    \* ---- tool start-up (manual/registry.py: initialize_all, wait_until_ready) ----
    adapterKind,    \* what each registered adapter exposes (initialize, ready)
    adapterReady,   \* the adapter's own `ready` attribute, where it has one
    entryReady,     \* ToolEntry.ready
    lastError,      \* ToolEntry.last_error
    initTask,       \* state of the task running _init_wrapper for each tool
    initPc,         \* position of initialize_all
    initTimedOut,   \* the timeout of asyncio.wait has fired
    initExc,        \* the tool whose exception initialize_all raised
    failOrder,      \* history: the tools whose initializer raised, in order
    waitPc,         \* position of wait_until_ready
    waitExpired,    \* time.time() - start > timeout
    notReady,       \* the local not_ready of the last poll
    waitAfterInit,  \* history: wait_until_ready was called after initialize_all returned
    \* ---- the call table (manual/registry.py: register_call, cancel_call) ----
    callTable,      \* ToolRegistry._calls: the task registered under each call id
    taskState,      \* state of each asyncio.Task that runs a call
    cancelPc,       \* position of each caller of cancel_call
    cancelId,       \* the call_id argument of the caller
    cancelTask,     \* the local `task`
    cancelled,      \* the local `cancelled`
    cancelRet,      \* what cancel_call returned
    \* ---- CsvRagTool.initialize and run (rag/rag.py) ----
    toolPc,         \* position of each process's CsvRagTool in initialize()
    toolReady,      \* CsvRagTool._ready
    runResult,      \* what the last run() of the tool answered
    \* ---- CsvRagTool.ingest_folder over several sources (rag/rag.py) ----
    srcStatus,      \* csv_files.status of each source of the folder
    folderPc,       \* position of ingest_folder
    folderIdx,      \* the source the loop is at
    srcRaised,      \* history: sources whose processing raised an exception
    \* ---- LazyToolWrapper (helpers/lazy_wrapper.py) ----
    lzMode,         \* the callers are tasks of one event loop, or threads
    lzLock,         \* self._lock: NoLock or the lock object it refers to
    lzHeld,         \* for each lock object, the caller holding it
    lzInstance,     \* self._instance: NoInstance or the instance it refers to
    lzReady,        \* self._ready
    lzPc,           \* position of each caller
    lzOp,           \* what each caller called: initialize() or run()
    lzMyLock,       \* the lock object `async with self._lock` evaluated to
    instState,      \* what happened to the instance each caller created
    factoryCalls,   \* history: number of factory() calls
    ranEarly,       \* history: run() reached an instance not yet initialized
    \* ---- ToolRegistry.set_concurrency_limit (manual/registry.py) ----
    oldSem,         \* the semaphore object the last set_concurrency_limit replaced
    limChanges,     \* number of set_concurrency_limit calls made
    atChange,       \* history: for each caller, the call it was inside at the change (0: none)
    \* ---- events of the invocation slot (manual/registry.py) ----
    slotLog,        \* for each caller, the names of the events its current slot emitted
    lastEvent,      \* the payload of the latest _emit_event call
    \* ---- register / unregister while slots are held (manual/registry.py) ----
    toolsEntry,     \* ToolRegistry._tools[name]: the ToolEntry object under the name, or NoObject
    entryCount,     \* running_count of each ToolEntry object created so far
    ctxEntry,       \* _InvocationCtx._entry of each caller's open slot, or NoObject
    \* ---- the stdio transport (manual/transports/stdio.py) ----
    rpcPc,          \* position of each tools/call request in _run_tool_and_stream
    rpcId,          \* the call_id the request carries
    rpcTask,        \* the local `task` of the cancel_call in the request's finally block
    rpcResult,      \* what the request's runner task produced
    responses       \* history: JSON-RPC responses written for each request

leaseVars == <<redis, taskPc, isAcquired, stopEvent, renewPc, taskResult, runningTaskId>>

regVars == <<entry, callPc, calls, delayed>>

advVars == <<pgLock, advPc, advWait, advRetries, advAttempt, advAcquired,
            advTries, advGranted, advUnlocked>>

dbVars  == <<csvFile, csvRows, vsIndex>>
ingVars == <<dbVars, diskVersion, ingPc, runsLeft, fileMeta, rowCounter, streamPos,
            buffer, outcomes>>

tblVars == <<rowTable, rowSeq, upsertRet, firstId, lastUpsert>>

startVars == <<adapterKind, adapterReady, entryReady, lastError, initTask, initPc,
              initTimedOut, initExc, failOrder, waitPc, waitExpired, notReady,
              waitAfterInit>>

callVars == <<callTable, taskState, cancelPc, cancelId, cancelTask, cancelled, cancelRet>>

\* The parts added after the ingestion pipeline.
toolVars == <<toolPc, toolReady, runResult>>
folderVars == <<srcStatus, folderPc, folderIdx, srcRaised>>
lazyVars == <<lzMode, lzLock, lzHeld, lzInstance, lzReady, lzPc, lzOp, lzMyLock,
             instState, factoryCalls, ranEarly>>
limVars == <<oldSem, limChanges, atChange>>
eventVars == <<slotLog, lastEvent>>
reregVars == <<toolsEntry, entryCount, ctxEntry>>
rpcVars == <<rpcPc, rpcId, rpcTask, rpcResult, responses>>
lastVars == <<reregVars, rpcVars>>
moreVars == <<folderVars, lazyVars, limVars, eventVars, lastVars>>
restVars == <<callVars, toolVars, moreVars>>

vars == <<leaseVars, regVars, advVars, ingVars, tblVars, startVars, restVars>>

\* Frame conditions: a step of one part leaves the other parts alone.
LeaseOnly == UNCHANGED <<regVars, advVars, ingVars, tblVars, startVars, restVars>>
RegOnly   == UNCHANGED <<leaseVars, advVars, ingVars, tblVars, startVars, restVars>>
AdvOnly   == UNCHANGED <<leaseVars, regVars, ingVars, tblVars, startVars, restVars>>
IngOnly   == UNCHANGED <<leaseVars, regVars, tblVars, startVars, restVars>>
TblOnly   == UNCHANGED <<leaseVars, regVars, advVars, ingVars, startVars, restVars>>
StartOnly == UNCHANGED <<leaseVars, regVars, advVars, ingVars, tblVars, restVars>>
OldOnly   == UNCHANGED <<leaseVars, regVars, advVars, ingVars, tblVars, startVars>>
CallOnly  == OldOnly /\ UNCHANGED <<toolVars, moreVars>>
ToolOnly  == UNCHANGED <<leaseVars, regVars, ingVars, tblVars, startVars, callVars, moreVars>>
FolderOnly == OldOnly /\ UNCHANGED <<callVars, toolVars, lazyVars, limVars, eventVars, lastVars>>
LazyOnly  == OldOnly /\ UNCHANGED <<callVars, toolVars, folderVars, limVars, eventVars, lastVars>>
LimitOnly == UNCHANGED <<leaseVars, advVars, ingVars, tblVars, startVars, callVars,
                         toolVars, folderVars, lazyVars, eventVars, lastVars>>
EventOnly == UNCHANGED <<leaseVars, advVars, ingVars, tblVars, startVars, callVars,
                         toolVars, folderVars, lazyVars, limVars, lastVars>>
ReregOnly == OldOnly /\ UNCHANGED <<callVars, toolVars, folderVars, lazyVars, limVars,
                                    eventVars, rpcVars>>

(***************************************************************************)
(*                         REDIS LEASE  (worker.py)                         *)
(***************************************************************************)

\* Number of concurrent ingest_tool_task deliveries for the same lock key.
NumTasks == 2
\* The lock's ttl, in ticks of the model's clock.
LockTtl  == 2

Tasks   == 1..NumTasks
NoOwner == 0

NoKey == [val |-> NoOwner, ttl |-> 0]

\* redis.set(key, owner_id, nx=True, ex=ttl): the new key state and the reply.
RedisSetAlways(r, owner, ttl) ==
    [store |-> [val |-> owner, ttl |-> ttl], ok |-> TRUE]

RedisSetNxEx(r, owner, ttl) ==
    IF r.val = NoOwner
    THEN [store |-> [val |-> owner, ttl |-> ttl], ok |-> TRUE]
    ELSE [store |-> r, ok |-> FALSE]

\* _RELEASE_LUA: compare-and-delete, executed atomically by the server.
ReleaseLua(r, owner) ==
    IF r.val = owner THEN NoKey ELSE r

\* redis.expire(key, ttl): resets the ttl of whatever value the key holds.
RedisExpire(r, ttl) ==
    IF r.val = NoOwner THEN r ELSE [r EXCEPT !.ttl = ttl]

\* redis.delete(key)
RedisDelete(r) == NoKey

InitLeaseVars ==
    /\ redis = NoKey
    /\ taskPc = [t \in Tasks |-> "start"]
    /\ isAcquired = [t \in Tasks |-> FALSE]
    /\ stopEvent = [t \in Tasks |-> FALSE]
    /\ renewPc = [t \in Tasks |-> "none"]
    /\ taskResult = [t \in Tasks |-> "none"]
    /\ runningTaskId = [t \in Tasks |-> NoOwner]

\* RedisLock.acquire as called at `from` ; on success the renewal thread is started.
\* A Redis error makes acquire return False (except Exception: return False).
AcquireAt(t, from, onFail, failResult) ==
    /\ taskPc[t] = from
    /\ \E err \in BOOLEAN :
         LET res == IF err THEN [store |-> redis, ok |-> FALSE]
                    ELSE RedisSetNxEx(redis, t, LockTtl)
         IN /\ redis' = res.store
            /\ IF res.ok
               THEN /\ isAcquired' = [isAcquired EXCEPT ![t] = TRUE]
                    /\ stopEvent' = [stopEvent EXCEPT ![t] = FALSE]
                    /\ renewPc' = [renewPc EXCEPT ![t] = "wait"]
                    /\ taskPc' = [taskPc EXCEPT ![t] = "body"]
                    /\ UNCHANGED taskResult
               ELSE /\ taskPc' = [taskPc EXCEPT ![t] = onFail]
                    /\ taskResult' = [taskResult EXCEPT ![t] = failResult]
                    /\ UNCHANGED <<isAcquired, stopEvent, renewPc>>
    /\ UNCHANGED runningTaskId
    /\ LeaseOnly

\* ingest_tool_task: acquired = lock.acquire()
TaskAcquire(t) == AcquireAt(t, "start", "lockInfo", "none")

\* A lookup that reports the key's remaining TTL in place of its owner.
GetLockInfoTtl(r, err) == IF err THEN NoOwner ELSE r.ttl

\* RedisLock.get_lock_info: the owner stored under the key; None (NoOwner) if
\* the key is absent or the lookup raised.
GetLockInfo(r, err) == IF err THEN NoOwner ELSE r.val

\* ingest_tool_task: RedisLock.get_lock_info after a failed acquire.
TaskLockInfo(t) ==
    /\ taskPc[t] = "lockInfo"
    /\ \E err \in BOOLEAN :
         LET info == GetLockInfo(redis, err)
         IN  IF info # NoOwner
             THEN /\ taskResult' = [taskResult EXCEPT ![t] = "running"]
                  /\ runningTaskId' = [runningTaskId EXCEPT ![t] = info]
                  /\ taskPc' = [taskPc EXCEPT ![t] = "ended"]
             ELSE /\ taskPc' = [taskPc EXCEPT ![t] = "retry"]
                  /\ UNCHANGED <<taskResult, runningTaskId>>
    /\ UNCHANGED <<redis, isAcquired, stopEvent, renewPc>>
    /\ LeaseOnly

\* ingest_tool_task: the second acquire when the key disappeared.
TaskRetryAcquire(t) == AcquireAt(t, "retry", "ended", "skipped")

\* ingest_tool_task: the protected work ends, by return or by an exception
\* (SoftTimeLimitExceeded included); control enters the finally block.
TaskBody(t) ==
    /\ taskPc[t] = "body"
    /\ \E outcome \in {"ok", "raised"} :
         taskResult' = [taskResult EXCEPT ![t] = outcome]
    /\ taskPc' = [taskPc EXCEPT ![t] = "release"]
    /\ UNCHANGED <<redis, isAcquired, stopEvent, renewPc, runningTaskId>>
    /\ LeaseOnly

\* RedisLock.release: _stop_event.set() and the bounded join of the thread.
ReleaseStop(t) ==
    /\ taskPc[t] = "release"
    /\ stopEvent' = [stopEvent EXCEPT ![t] = TRUE]
    /\ taskPc' = [taskPc EXCEPT ![t] = "relEval"]
    /\ UNCHANGED <<redis, isAcquired, renewPc, taskResult, runningTaskId>>
    /\ LeaseOnly

\* RedisLock.release: redis.eval(_RELEASE_LUA, ...), or redis.RedisError.
ReleaseEval(t) ==
    /\ taskPc[t] = "relEval"
    /\ \/ /\ redis' = ReleaseLua(redis, t)
          /\ taskPc' = [taskPc EXCEPT ![t] = "relFinally"]
       \/ /\ UNCHANGED redis
          /\ taskPc' = [taskPc EXCEPT ![t] = "fbGet"]
    /\ UNCHANGED <<isAcquired, stopEvent, renewPc, taskResult, runningTaskId>>
    /\ LeaseOnly

\* RedisLock.release fallback: cur = redis.get(key); if cur == owner_id ...
ReleaseFallbackGet(t) ==
    /\ taskPc[t] = "fbGet"
    /\ \E err \in BOOLEAN :
         taskPc' = [taskPc EXCEPT ![t] =
                      IF ~err /\ redis.val = t THEN "fbDelete" ELSE "relFinally"]
    /\ UNCHANGED <<redis, isAcquired, stopEvent, renewPc, taskResult, runningTaskId>>
    /\ LeaseOnly

\* RedisLock.release fallback: redis.delete(key)
ReleaseFallbackDelete(t) ==
    /\ taskPc[t] = "fbDelete"
    /\ \E err \in BOOLEAN :
         redis' = IF err THEN redis ELSE RedisDelete(redis)
    /\ taskPc' = [taskPc EXCEPT ![t] = "relFinally"]
    /\ UNCHANGED <<isAcquired, stopEvent, renewPc, taskResult, runningTaskId>>
    /\ LeaseOnly

\* RedisLock.release: finally: self._is_acquired = False ; the task ends.
ReleaseFinally(t) ==
    /\ taskPc[t] = "relFinally"
    /\ isAcquired' = [isAcquired EXCEPT ![t] = FALSE]
    /\ taskPc' = [taskPc EXCEPT ![t] = "ended"]
    /\ UNCHANGED <<redis, stopEvent, renewPc, taskResult, runningTaskId>>
    /\ LeaseOnly

\* _renew_loop: _stop_event.wait(renew_interval) returns (set, or timed out).
RenewWait(t) ==
    /\ renewPc[t] = "wait"
    /\ renewPc' = [renewPc EXCEPT ![t] = IF stopEvent[t] THEN "exit" ELSE "get"]
    /\ UNCHANGED <<redis, taskPc, isAcquired, stopEvent, taskResult, runningTaskId>>
    /\ LeaseOnly

\* _renew_loop: cur = redis.get(key); if cur != owner_id: break
RenewGet(t) ==
    /\ renewPc[t] = "get"
    /\ \E err \in BOOLEAN :
         renewPc' = [renewPc EXCEPT ![t] =
                       IF err THEN "wait"
                       ELSE IF redis.val # t THEN "exit" ELSE "expire"]
    /\ UNCHANGED <<redis, taskPc, isAcquired, stopEvent, taskResult, runningTaskId>>
    /\ LeaseOnly

\* _renew_loop: redis.expire(key, ttl)
RenewExpire(t) ==
    /\ renewPc[t] = "expire"
    /\ \E err \in BOOLEAN :
         redis' = IF err THEN redis ELSE RedisExpire(redis, LockTtl)
    /\ renewPc' = [renewPc EXCEPT ![t] = "wait"]
    /\ UNCHANGED <<taskPc, isAcquired, stopEvent, taskResult, runningTaskId>>
    /\ LeaseOnly

\* The clock of the Redis server: the key's ttl runs down and the key expires.
Tick ==
    /\ redis.val # NoOwner
    /\ redis' = IF redis.ttl > 1 THEN [redis EXCEPT !.ttl = redis.ttl - 1] ELSE NoKey
    /\ UNCHANGED <<taskPc, isAcquired, stopEvent, renewPc, taskResult, runningTaskId>>
    /\ LeaseOnly


\* A renew thread that outlives its process.
RenewSurvivesCrash(t) == renewPc

\* The renew thread is a daemon thread of the worker process (daemon=True):
\* it ends with it.
RenewAfterCrash(t) == [renewPc EXCEPT ![t] = "dead"]

\* The worker process running delivery t dies while it holds the lease: the
\* task and the daemon renew thread stop, the key stays in Redis.
Crash(t) ==
    /\ isAcquired[t]
    /\ redis.val = t
    /\ taskPc[t] \notin {"start", "lockInfo", "retry", "ended", "crashed"}
    /\ taskPc' = [taskPc EXCEPT ![t] = "crashed"]
    /\ renewPc' = RenewAfterCrash(t)
    /\ UNCHANGED <<redis, isAcquired, stopEvent, taskResult, runningTaskId>>
    /\ LeaseOnly

\* The job of a delivery that has returned is delivered again (a new
\* RedisLock object for the same key and owner id).
Redeliver(t) ==
    /\ taskPc[t] = "ended"
    /\ renewPc[t] \in {"none", "exit"}
    /\ taskPc' = [taskPc EXCEPT ![t] = "start"]
    /\ isAcquired' = [isAcquired EXCEPT ![t] = FALSE]
    /\ stopEvent' = [stopEvent EXCEPT ![t] = FALSE]
    /\ renewPc' = [renewPc EXCEPT ![t] = "none"]
    /\ taskResult' = [taskResult EXCEPT ![t] = "none"]
    /\ runningTaskId' = [runningTaskId EXCEPT ![t] = NoOwner]
    /\ UNCHANGED redis
    /\ LeaseOnly

(***************************************************************************)
(*                   TOOL REGISTRY  (manual/registry.py)                    *)
(***************************************************************************)

\* Number of concurrent callers of invoke_slot for the tool.
NumCallers == 3
\* Largest concurrency limit a tool is registered with.
MaxLimit   == 2
\* Invocations each caller makes.
MaxCalls   == 2

Callers == 1..NumCallers
\* concurrency_limit=None: the tool has no semaphore.
NoLimit == -1
NoEntry == [registered |-> FALSE]
NoSem   == [none |-> TRUE, value |-> 0, waiters |-> <<>>, woken |-> {}]

\* asyncio.Semaphore(value): the counter, the FIFO of waiting callers and the
\* waiters whose future already has its result set (woken, not yet resumed).
NewSemaphore(n) == [none |-> FALSE, value |-> n, waiters |-> <<>>, woken |-> {}]

\* asyncio.Semaphore.locked(): no permit left, or somebody already queues.
SemNeverLocked(sem) == FALSE

SemLocked(sem) == sem.value = 0 \/ Len(sem.waiters) > 0

\* Index of the first waiter whose future is not done, or 0.
FirstPending(sem) ==
    LET idx == {i \in 1..Len(sem.waiters) : sem.waiters[i] \notin sem.woken}
    IN IF idx = {} THEN 0 ELSE CHOOSE i \in idx : \A j \in idx : i <= j

\* asyncio.Semaphore._wake_up_next(): hand a permit to the first pending waiter.
SemWakeUpNext(sem) ==
    IF FirstPending(sem) = 0 THEN sem
    ELSE [sem EXCEPT !.value = sem.value - 1,
                     !.woken = sem.woken \cup {sem.waiters[FirstPending(sem)]}]

\* asyncio.Semaphore.release(), as called by __aexit__.
SemReleaseNoWake(sem) == [sem EXCEPT !.value = sem.value + 1]

SemRelease(sem) == SemWakeUpNext([sem EXCEPT !.value = sem.value + 1])

RemoveWaiter(q, c) == SelectSeq(q, LAMBDA x : x # c)

\* ToolRegistry.register: a new ToolEntry, with a semaphore when a limit is given.
NewEntry(limit) ==
    [registered |-> TRUE, concurrency_limit |-> limit,
     semaphore |-> IF limit = NoLimit THEN NoSem ELSE NewSemaphore(limit),
     running_count |-> 0]

InitRegVars ==
    /\ entry = NoEntry
    /\ callPc = [c \in Callers |-> "idle"]
    /\ calls = [c \in Callers |-> 0]
    /\ delayed = {}

\* ToolRegistry.register(adapter, concurrency_limit).
Register(limit) ==
    /\ ~entry.registered
    /\ entry' = NewEntry(limit)
    /\ UNCHANGED <<callPc, calls, delayed>>
    /\ RegOnly

\* An admission that leaves running_count alone.
AdmitUncounted(e) == e

\* _InvocationCtx.__aenter__ after the permit is held: running_count += 1 under
\* the state lock, call_started emitted.
Admit(e) == [e EXCEPT !.running_count = e.running_count + 1]

\* `async with await registry.invoke_slot(name)`: invoke_slot and __aenter__ up
\* to its first suspension. An unknown name raises RegistryError; with a free
\* permit (or no semaphore) the caller is admitted at once; otherwise it queues
\* on the semaphore.
InvokeSlotStep(c) ==
    /\ callPc[c] = "idle"
    /\ calls[c] < MaxCalls
    /\ calls' = [calls EXCEPT ![c] = calls[c] + 1]
    /\ IF ~entry.registered
       THEN /\ callPc' = [callPc EXCEPT ![c] = "error"]
            /\ UNCHANGED <<entry, delayed>>
       ELSE IF entry.semaphore.none
       THEN /\ entry' = Admit(entry)
            /\ callPc' = [callPc EXCEPT ![c] = "inside"]
            /\ delayed' = delayed \ {c}
       ELSE IF ~SemLocked(entry.semaphore)
       THEN /\ entry' = Admit([entry EXCEPT !.semaphore.value = entry.semaphore.value - 1])
            /\ callPc' = [callPc EXCEPT ![c] = "inside"]
            /\ delayed' = delayed \ {c}
       ELSE /\ entry' = [entry EXCEPT !.semaphore.waiters = Append(entry.semaphore.waiters, c)]
            /\ callPc' = [callPc EXCEPT ![c] = "semWait"]
            /\ delayed' = delayed \cup {c}

InvokeSlot(c) == InvokeSlotStep(c) /\ RegOnly

\* __aenter__ resumes after its future got a result: the waiter leaves the
\* queue, passes a spare permit on, and is admitted.
ResumeEnterStep(c) ==
    /\ callPc[c] = "semWait"
    /\ c \in entry.semaphore.woken
    /\ LET s1 == [entry.semaphore EXCEPT !.waiters = RemoveWaiter(entry.semaphore.waiters, c),
                                         !.woken = entry.semaphore.woken \ {c}]
           s2 == IF s1.value > 0 THEN SemWakeUpNext(s1) ELSE s1
       IN entry' = Admit([entry EXCEPT !.semaphore = s2])
    /\ callPc' = [callPc EXCEPT ![c] = "inside"]
    /\ UNCHANGED <<calls, delayed>>

ResumeEnter(c) == ResumeEnterStep(c) /\ RegOnly

Max(a, b) == IF a >= b THEN a ELSE b

\* The tool body ends (by return or by an exception) and __aexit__ runs:
\* running_count decremented, call_finished emitted, the permit released.
ExitSlotStep(c) ==
    /\ callPc[c] = "inside"
    /\ LET e1 == [entry EXCEPT !.running_count = Max(0, entry.running_count - 1)]
       IN entry' = IF e1.semaphore.none THEN e1
                   ELSE [e1 EXCEPT !.semaphore = SemRelease(e1.semaphore)]
    /\ callPc' = [callPc EXCEPT ![c] = "idle"]
    /\ UNCHANGED <<calls, delayed>>

ExitSlot(c) == ExitSlotStep(c) /\ RegOnly

NoEvent == [ev |-> "none", caller |-> 0, running_count |-> 0, permits |-> 0]

InitSlotLog ==
    /\ slotLog = [c \in Callers |-> <<>>]
    /\ lastEvent = NoEvent

\* The payload _emit_event is called with: the event name, the call and the
\* entry's running_count at that statement; `permits` records the value of
\* the semaphore at that statement.
Event(name, c, e) ==
    [ev |-> name, caller |-> c, running_count |-> e.running_count,
     permits |-> e.semaphore.value]

\* __aexit__ under the state lock: running_count = max(0, running_count - 1).
Decrement(e) == [e EXCEPT !.running_count = Max(0, e.running_count - 1)]

\* invoke_slot and __aenter__ with the events they emit: call_started when
\* the caller is admitted at once, nothing when it queues or the name is
\* unknown.
EmitInvoke(c) ==
    /\ InvokeSlotStep(c)
    /\ IF callPc'[c] = "inside"
       THEN /\ slotLog' = [slotLog EXCEPT ![c] = <<"call_started">>]
            /\ lastEvent' = Event("call_started", c, entry')
       ELSE /\ slotLog' = [slotLog EXCEPT ![c] = <<>>]
            /\ UNCHANGED lastEvent
    /\ EventOnly

\* __aenter__ resuming from the semaphore queue: call_started.
EmitResume(c) ==
    /\ ResumeEnterStep(c)
    /\ slotLog' = [slotLog EXCEPT ![c] = <<"call_started">>]
    /\ lastEvent' = Event("call_started", c, entry')
    /\ EventOnly

\* __aexit__: call_finished is emitted with the decremented count while the
\* permit is still held; the release follows.
EmitExit(c) ==
    /\ ExitSlotStep(c)
    /\ slotLog' = [slotLog EXCEPT ![c] = Append(@, "call_finished")]
    /\ lastEvent' = Event("call_finished", c, Decrement(entry))
    /\ EventOnly

\* Calls of set_concurrency_limit made in one run.
MaxLimitChanges == 1

InitLimVars ==
    /\ oldSem = NoSem
    /\ limChanges = 0
    /\ atChange = [c \in Callers |-> 0]

\* The callers inside the tool's invocation slot.
InsideSlot == {c \in Callers : callPc[c] = "inside"}

\* ToolRegistry.set_concurrency_limit(name, limit), under the state lock:
\* concurrency_limit is replaced and the entry gets no semaphore (None) or a
\* new asyncio.Semaphore(max(limit - running_count, 0)). Callers queued on
\* the replaced semaphore keep waiting on that object.
SetConcurrencyLimit(limit) ==
    /\ entry.registered
    /\ limChanges < MaxLimitChanges
    /\ limChanges' = limChanges + 1
    /\ oldSem' = entry.semaphore
    /\ atChange' = [c \in Callers |-> IF c \in InsideSlot THEN calls[c] ELSE 0]
    /\ entry' = [entry EXCEPT
                    !.concurrency_limit = limit,
                    !.semaphore = IF limit = NoLimit THEN NoSem
                                  ELSE NewSemaphore(Max(limit - entry.running_count, 0))]
    /\ UNCHANGED <<callPc, calls, delayed>>
    /\ LimitOnly

\* __aenter__ of a caller that was woken on the replaced semaphore resumes:
\* it leaves that semaphore's queue, passes a spare permit of it on, and is
\* admitted.
ResumeEnterOld(c) ==
    /\ callPc[c] = "semWait"
    /\ ~oldSem.none
    /\ c \in oldSem.woken
    /\ LET s1 == [oldSem EXCEPT !.waiters = RemoveWaiter(oldSem.waiters, c),
                                !.woken = oldSem.woken \ {c}]
       IN oldSem' = IF s1.value > 0 THEN SemWakeUpNext(s1) ELSE s1
    /\ entry' = Admit(entry)
    /\ callPc' = [callPc EXCEPT ![c] = "inside"]
    /\ UNCHANGED <<calls, delayed, limChanges, atChange>>
    /\ LimitOnly

(***************************************************************************)
(*               POSTGRESQL ADVISORY LOCK  (helpers/pg_lock.py)             *)
(***************************************************************************)

\* The database sessions (one per process) that use the same lock key.
Sessions  == {1, 2}
NoSession == 0
\* Default of the `retries` parameter.
DefaultRetries == 3
\* Largest `retries` argument of a direct call of advisory_lock.
MaxRetriesArg  == 1

\* SELECT pg_try_advisory_lock(k): session-level, re-entrant for the holder.
PgTryAdvisoryLock(lock, s) ==
    IF lock = NoSession \/ lock = s
    THEN [lock |-> s, granted |-> TRUE]
    ELSE [lock |-> lock, granted |-> FALSE]

\* SELECT pg_advisory_unlock(k): releases the lock if this session holds it.
PgAdvisoryUnlock(lock, s) == IF lock = s THEN NoSession ELSE lock

\* Truth value of `acquired = res.scalar_one()`: pg_try_advisory_lock returns
\* a boolean, pg_advisory_lock returns void (None / '' : falsy).
ScalarIsTruthy(wait, granted) == IF wait THEN FALSE ELSE granted

InitAdvVars ==
    /\ pgLock = NoSession
    /\ advPc = [s \in Sessions |-> "idle"]
    /\ advWait = [s \in Sessions |-> FALSE]
    /\ advRetries = [s \in Sessions |-> DefaultRetries]
    /\ advAttempt = [s \in Sessions |-> 0]
    /\ advAcquired = [s \in Sessions |-> FALSE]
    /\ advTries = [s \in Sessions |-> 0]
    /\ advGranted = [s \in Sessions |-> FALSE]
    /\ advUnlocked = [s \in Sessions |-> FALSE]

\* advisory_lock(session, key, wait, retries): func chosen, acquired = False,
\* SET LOCAL executed, attempt = 0.
AdvEnterWith(s, wait, retries) ==
    /\ advPc' = [advPc EXCEPT ![s] = "try"]
    /\ advWait' = [advWait EXCEPT ![s] = wait]
    /\ advRetries' = [advRetries EXCEPT ![s] = retries]
    /\ advAttempt' = [advAttempt EXCEPT ![s] = 0]
    /\ advAcquired' = [advAcquired EXCEPT ![s] = FALSE]
    /\ advTries' = [advTries EXCEPT ![s] = 0]
    /\ advGranted' = [advGranted EXCEPT ![s] = FALSE]
    /\ advUnlocked' = [advUnlocked EXCEPT ![s] = FALSE]
    /\ UNCHANGED pgLock

\* A direct caller enters `async with advisory_lock(...)`.
AdvEnter(s, wait, retries) ==
    /\ advPc[s] = "idle"
    /\ AdvEnterWith(s, wait, retries)
    /\ AdvOnly

\* One pass of `while attempt <= retries`: the lock statement, then break or
\* attempt += 1. pg_advisory_lock (wait) blocks until the lock is free.
AdvTry(s) ==
    /\ advPc[s] = "try"
    /\ advWait[s] => (pgLock = NoSession \/ pgLock = s)
    /\ LET r == PgTryAdvisoryLock(pgLock, s)
           acq == ScalarIsTruthy(advWait[s], r.granted)
       IN /\ pgLock' = r.lock
          /\ advGranted' = [advGranted EXCEPT ![s] = r.granted]
          /\ advAcquired' = [advAcquired EXCEPT ![s] = acq]
          /\ advTries' = [advTries EXCEPT ![s] = advTries[s] + 1]
          /\ IF acq \/ advWait[s]
             THEN /\ advPc' = [advPc EXCEPT ![s] = "yielded"]
                  /\ UNCHANGED advAttempt
             ELSE /\ advPc' = [advPc EXCEPT ![s] = "sleep"]
                  /\ advAttempt' = [advAttempt EXCEPT ![s] = advAttempt[s] + 1]
    /\ UNCHANGED <<advWait, advRetries, advUnlocked>>
    /\ AdvOnly

\* A loop that gives up one attempt earlier.
WhileAttemptBelow(attempt, retries) == attempt < retries

\* while attempt <= retries
WhileAttempt(attempt, retries) == attempt <= retries

\* asyncio.sleep(delay) returns and the loop condition is tested again.
AdvSleep(s) ==
    /\ advPc[s] = "sleep"
    /\ advPc' = [advPc EXCEPT ![s] =
                   IF WhileAttempt(advAttempt[s], advRetries[s]) THEN "try" ELSE "yielded"]
    /\ UNCHANGED <<pgLock, advWait, advRetries, advAttempt, advAcquired,
                   advTries, advGranted, advUnlocked>>
    /\ AdvOnly

\* The body of a direct caller's with-block ends, by return or by an exception.
AdvBody(s) ==
    /\ advPc[s] = "yielded"
    /\ advPc' = [advPc EXCEPT ![s] = "exiting"]
    /\ UNCHANGED <<pgLock, advWait, advRetries, advAttempt, advAcquired,
                   advTries, advGranted, advUnlocked>>
    /\ AdvOnly

\* finally: if acquired: SELECT pg_advisory_unlock(:k)
AdvExit(s) ==
    /\ advPc[s] = "exiting"
    /\ IF advAcquired[s]
       THEN /\ pgLock' = PgAdvisoryUnlock(pgLock, s)
            /\ advUnlocked' = [advUnlocked EXCEPT ![s] = TRUE]
       ELSE UNCHANGED <<pgLock, advUnlocked>>
    /\ advPc' = [advPc EXCEPT ![s] = "exited"]
    /\ UNCHANGED <<advWait, advRetries, advAttempt, advAcquired, advTries, advGranted>>
    /\ AdvOnly

(***************************************************************************)
(*      CSV INGESTION  (rag/rag.py, managers/ingest_manager.py, crud)       *)
(***************************************************************************)

\* Data rows of the CSV file.
NumRows     == 5
\* batch_size passed to ingest_folder.
BatchSize   == 2
\* ingest_folder calls of the process that is restarted after an interruption.
MaxRuns     == 2
\* Versions of the file's content (fingerprints) that appear on disk.
MaxVersions == 2

Rows == 1..NumRows

\* FileStatus / EmbeddingStatus values.
PENDING == "p"
DONE    == "d"
FAILED  == "f"

NoFile == [exists |-> FALSE, checksum |-> 0, status |-> PENDING, last_row_index |-> 0]

\* CSVRow.vector_id: NULL, or the parent id f"CSVRow:{row_id}"; the ids under
\* which chunk documents are written, f"CSVRow:{row_id}:{idx}".
NoVector == <<>>
ParentVectorId(row_id) == <<row_id>>
ChunkId(row_id, idx)   == <<row_id, idx>>

\* CSVRow.embedding_error: NULL, str(e) of the embedding call, or the tag of
\* an index-write failure.
NoError          == "null"
EmbeddingError   == "embedding_error"
VectorStoreError == "vector_store_error"

NoRow  == [stored |-> FALSE, status |-> PENDING, vector |-> NoVector, error |-> NoError]

\* row_checksum of the row at position i, and the checksum of its chunk text
\* (sha256 over different bytes: never a CSVRow.checksum).
RowChecksum(i)   == i
ChunkChecksum(i) == NumRows + i

\* create_csv_file(path, checksum, PENDING, 0)
CreateCsvFile(checksum) ==
    [exists |-> TRUE, checksum |-> checksum, status |-> PENDING, last_row_index |-> 0]

\* update_csv_file_checksum(file_id, new_checksum, PENDING, 0)
UpdateCsvFileChecksum(f, checksum) ==
    [f EXCEPT !.checksum = checksum, !.status = PENDING, !.last_row_index = 0]

\* update_csv_file_status(file_id, new_status, total_rows)
UpdateCsvFileStatus(f, status, total_rows) ==
    [f EXCEPT !.status = status, !.last_row_index = total_rows]

\* RowRepository.update_last_row_index(file_id, last_row_index)
UpdateLastRowIndex(f, idx) == [f EXCEPT !.last_row_index = idx]

\* The stored row is reset whenever the path is known.
GetOrRegisterFileAlwaysResets(f, checksum) ==
    IF ~f.exists THEN CreateCsvFile(checksum) ELSE UpdateCsvFileChecksum(f, checksum)

\* The stored row keeps its status and offset when the fingerprint changed.
GetOrRegisterFileKeepsProgress(f, checksum) ==
    IF ~f.exists THEN CreateCsvFile(checksum) ELSE [f EXCEPT !.checksum = checksum]

\* CSVFileManager.get_or_register_file: the stored row after the call.
GetOrRegisterFile(f, checksum) ==
    IF ~f.exists THEN CreateCsvFile(checksum)
    ELSE IF f.checksum # checksum THEN UpdateCsvFileChecksum(f, checksum)
    ELSE f

\* bulk_upsert_rows: INSERT ... ON CONFLICT (checksum) DO UPDATE of the source
\* fields; a new row starts PENDING, an existing row keeps status and vector id.
BulkUpsertRows(rows, batch) ==
    [i \in Rows |->
        IF \E k \in 1..Len(batch) : RowChecksum(batch[k]) = RowChecksum(i)
        THEN [rows[i] EXCEPT !.stored = TRUE]
        ELSE rows[i]]

\* RowRepository.mark_checksums_failed(checksums, error_text)
MarkChecksumsFailed(rows, checksums, error_text) ==
    [i \in Rows |->
        IF rows[i].stored /\ RowChecksum(i) \in checksums
        THEN [rows[i] EXCEPT !.status = FAILED, !.error = error_text]
        ELSE rows[i]]

\* failed_checksums = [ce["chunk_checksum"] for ce in chunk_entries]
FailedChecksums(batch) == {ChunkChecksum(batch[k]) : k \in 1..Len(batch)}

\* RowRepository.mark_rows_done_with_vector(row_ids, vector_ids)
MarkRowsDoneWithVector(rows, batch) ==
    [i \in Rows |->
        IF rows[i].stored /\ \E k \in 1..Len(batch) : batch[k] = i
        THEN [rows[i] EXCEPT !.status = DONE, !.vector = ParentVectorId(i)]
        ELSE rows[i]]

\* RowStreamer.stream_batches: row_counter = self.start_index
InitialRowCounter(start_index) == start_index

\* RowStreamer.stream_batches: rows are read until the buffer holds batch_size
\* rows or the stream ends; every row read increments row_counter and is
\* skipped when row_counter <= start_index.
RECURSIVE FillBuffer(_, _, _, _)
FillBuffer(pos, counter, buf, start_index) ==
    IF pos >= NumRows \/ Len(buf) >= BatchSize
    THEN [pos |-> pos, counter |-> counter, buf |-> buf]
    ELSE IF counter + 1 <= start_index
         THEN FillBuffer(pos + 1, counter + 1, buf, start_index)
         ELSE FillBuffer(pos + 1, counter + 1, Append(buf, pos + 1), start_index)

SeqToSet(q) == {q[k] : k \in 1..Len(q)}

\* vs_ids of a batch: one chunk document per row, chunk_id = f"CSVRow:{row_id}:{idx}"
ChunkIds(batch) == {ChunkId(i, 0) : i \in SeqToSet(batch)}

\* ids of a batch in the pipeline without a splitter: vec_id = f"CSVRow:{dbid}"
ParentIds(batch) == {ParentVectorId(i) : i \in SeqToSet(batch)}

\* An empty database, the file on disk, and `runs` ingest_folder calls to come.
InitIngRuns(runs) ==
    /\ csvFile = NoFile
    /\ csvRows = [i \in Rows |-> NoRow]
    /\ vsIndex = {}
    /\ diskVersion = 1
    /\ ingPc = [p \in Sessions |-> "idle"]
    /\ runsLeft = runs
    /\ fileMeta = [p \in Sessions |-> NoFile]
    /\ rowCounter = [p \in Sessions |-> 0]
    /\ streamPos = [p \in Sessions |-> 0]
    /\ buffer = [p \in Sessions |-> <<>>]
    /\ outcomes = [p \in Sessions |-> <<>>]

InitIngVars == InitIngRuns([p \in Sessions |-> 0])

\* Local state of a process between two ingest_folder calls.
ResetLocals(p) ==
    /\ fileMeta' = [fileMeta EXCEPT ![p] = NoFile]
    /\ rowCounter' = [rowCounter EXCEPT ![p] = 0]
    /\ streamPos' = [streamPos EXCEPT ![p] = 0]
    /\ buffer' = [buffer EXCEPT ![p] = <<>>]
    /\ outcomes' = [outcomes EXCEPT ![p] = <<>>]

\* ingest_folder of an initialized tool: a session is opened and
\* `async with advisory_lock(session, lock_key)` is entered (wait and retries
\* at their defaults).
IngestStart(p) ==
    /\ ingPc[p] = "idle"
    /\ runsLeft[p] > 0
    /\ advPc[p] \in {"idle", "exited"}
    /\ AdvEnterWith(p, FALSE, DefaultRetries)
    /\ ingPc' = [ingPc EXCEPT ![p] = "locking"]
    /\ runsLeft' = [runsLeft EXCEPT ![p] = runsLeft[p] - 1]
    /\ ResetLocals(p)
    /\ UNCHANGED <<dbVars, diskVersion>>
    /\ IngOnly

\* The body of the with-block: `if not acquired: return`; otherwise the block
\* ends here and the rest of ingest_folder follows it.
IngestLockBody(p) ==
    /\ ingPc[p] = "locking"
    /\ advPc[p] = "yielded"
    /\ advPc' = [advPc EXCEPT ![p] = "exiting"]
    /\ ingPc' = [ingPc EXCEPT ![p] = IF advAcquired[p] THEN "afterLock" ELSE "returning"]
    /\ UNCHANGED <<pgLock, advWait, advRetries, advAttempt, advAcquired,
                   advTries, advGranted, advUnlocked>>
    /\ UNCHANGED <<dbVars, diskVersion, runsLeft, fileMeta, rowCounter, streamPos,
                   buffer, outcomes>>
    /\ IngOnly

\* `return` of the process that did not get the lock.
IngestReturn(p) ==
    /\ ingPc[p] = "returning"
    /\ advPc[p] = "exited"
    /\ ingPc' = [ingPc EXCEPT ![p] = "idle"]
    /\ UNCHANGED <<dbVars, diskVersion, runsLeft, fileMeta, rowCounter, streamPos,
                   buffer, outcomes>>
    /\ UNCHANGED advVars
    /\ IngOnly

\* file_paths = await self.file_mgr.scan_folder(folder_path)
ScanFolder(p) ==
    /\ ingPc[p] = "afterLock"
    /\ advPc[p] = "exited"
    /\ ingPc' = [ingPc EXCEPT ![p] = "register"]
    /\ UNCHANGED <<dbVars, diskVersion, runsLeft, fileMeta, rowCounter, streamPos,
                   buffer, outcomes>>
    /\ UNCHANGED advVars
    /\ IngOnly

\* file_meta = get_or_register_file(session, p); a DONE file is skipped, a
\* PENDING or FAILED one is handed to ingest_rows (start_index from file_meta).
RegisterFile(p) ==
    /\ ingPc[p] = "register"
    /\ LET meta == GetOrRegisterFile(csvFile, diskVersion)
       IN /\ csvFile' = meta
          /\ fileMeta' = [fileMeta EXCEPT ![p] = meta]
          /\ IF meta.status = DONE
             THEN /\ ingPc' = [ingPc EXCEPT ![p] = "idle"]
                  /\ UNCHANGED <<rowCounter, streamPos, buffer, outcomes>>
             ELSE /\ ingPc' = [ingPc EXCEPT ![p] = "stream"]
                  /\ rowCounter' = [rowCounter EXCEPT ![p] =
                                       InitialRowCounter(meta.last_row_index)]
                  /\ streamPos' = [streamPos EXCEPT ![p] = 0]
                  /\ buffer' = [buffer EXCEPT ![p] = <<>>]
                  /\ outcomes' = [outcomes EXCEPT ![p] = <<>>]
    /\ UNCHANGED <<csvRows, vsIndex, diskVersion, runsLeft>>
    /\ UNCHANGED advVars
    /\ IngOnly

\* stream_batches up to its next yield: a batch, the end of the stream (then
\* ingest_rows returns), or an exception that leaves ingest_rows (a row that
\* cannot be read or prepared).
StreamBatch(p) ==
    /\ ingPc[p] = "stream"
    /\ \/ LET r == FillBuffer(streamPos[p], rowCounter[p], <<>>, fileMeta[p].last_row_index)
          IN /\ streamPos' = [streamPos EXCEPT ![p] = r.pos]
             /\ rowCounter' = [rowCounter EXCEPT ![p] = r.counter]
             /\ buffer' = [buffer EXCEPT ![p] = r.buf]
             /\ ingPc' = [ingPc EXCEPT ![p] = IF r.buf = <<>> THEN "markDone" ELSE "upsert"]
       \/ /\ streamPos[p] < NumRows
          /\ ingPc' = [ingPc EXCEPT ![p] = "markFailed"]
          /\ UNCHANGED <<streamPos, rowCounter, buffer>>
    /\ UNCHANGED <<dbVars, diskVersion, runsLeft, fileMeta, outcomes>>
    /\ UNCHANGED advVars
    /\ IngOnly

\* The batch is abandoned: update_last_row_index(current_row_counter); continue
AdvanceOffset(p) ==
    /\ csvFile' = UpdateLastRowIndex(csvFile, rowCounter[p])
    /\ ingPc' = [ingPc EXCEPT ![p] = "stream"]

\* 1) chk_to_dbid = bulk_upsert(session, buffer), or its exception handler.
BatchUpsert(p) ==
    /\ ingPc[p] = "upsert"
    /\ \/ /\ csvRows' = BulkUpsertRows(csvRows, buffer[p])
          /\ ingPc' = [ingPc EXCEPT ![p] = "embed"]
          /\ UNCHANGED csvFile
       \/ /\ AdvanceOffset(p)
          /\ UNCHANGED csvRows
    /\ UNCHANGED <<vsIndex, diskVersion, runsLeft, fileMeta, rowCounter, streamPos,
                   buffer, outcomes>>
    /\ UNCHANGED advVars
    /\ IngOnly

\* 5) unique_embs = embed_texts_async(unique_texts), or its exception handler.
BatchEmbed(p) ==
    /\ ingPc[p] = "embed"
    /\ \/ /\ ingPc' = [ingPc EXCEPT ![p] = "store"]
          /\ UNCHANGED <<csvFile, csvRows>>
       \/ /\ csvRows' = MarkChecksumsFailed(csvRows, FailedChecksums(buffer[p]), EmbeddingError)
          /\ AdvanceOffset(p)
    /\ UNCHANGED <<vsIndex, diskVersion, runsLeft, fileMeta, rowCounter, streamPos,
                   buffer, outcomes>>
    /\ UNCHANGED advVars
    /\ IngOnly

\* 7) vs_adapter.add_documents(vs_docs, ids=vs_ids), or its exception handler.
BatchStore(p) ==
    /\ ingPc[p] = "store"
    /\ \/ /\ vsIndex' = vsIndex \cup ChunkIds(buffer[p])
          /\ ingPc' = [ingPc EXCEPT ![p] = "markRows"]
          /\ UNCHANGED <<csvFile, csvRows>>
       \/ /\ csvRows' = MarkChecksumsFailed(csvRows, FailedChecksums(buffer[p]), VectorStoreError)
          /\ AdvanceOffset(p)
          /\ UNCHANGED vsIndex
    /\ UNCHANGED <<diskVersion, runsLeft, fileMeta, rowCounter, streamPos,
                   buffer, outcomes>>
    /\ UNCHANGED advVars
    /\ IngOnly

\* 8) mark_rows_done_with_vector (its exception is logged and dropped), then
\* update_last_row_index(current_row_counter).
BatchMarkDone(p) ==
    /\ ingPc[p] = "markRows"
    /\ \/ csvRows' = MarkRowsDoneWithVector(csvRows, buffer[p])
       \/ UNCHANGED csvRows
    /\ AdvanceOffset(p)
    /\ UNCHANGED <<vsIndex, diskVersion, runsLeft, fileMeta, rowCounter, streamPos,
                   buffer, outcomes>>
    /\ UNCHANGED advVars
    /\ IngOnly

(***************************************************************************)
(*   The pipeline without a splitter (manual/managers/ingest_manager.py):   *)
(*   one vector per row, failures are recorded under the rows' checksums.   *)
(***************************************************************************)

\* How a batch ended.
BatchOk        == "ok"
UpsertFailed   == "upsert_failed"
EmbedFailed    == "embedding_failed"
IndexFailed    == "index_failed"

\* The failed rows are looked up under checksums of the embedded text.
UniqueChecksumsOfText(batch) == {ChunkChecksum(batch[k]) : k \in 1..Len(batch)}

\* unique_checksums = list(dict.fromkeys(checksums))
UniqueChecksums(batch) == {RowChecksum(batch[k]) : k \in 1..Len(batch)}

\* The batch's failure ends ingest_rows instead of the batch.
ManualBatchAbort(p, o) ==
    /\ ingPc' = [ingPc EXCEPT ![p] = "markFailed"]
    /\ outcomes' = [outcomes EXCEPT ![p] = Append(outcomes[p], o)]
    /\ UNCHANGED csvFile

\* The batch is finished with outcome o: update_last_row_index(
\* current_row_counter), then the next batch is read.
ManualBatchEnd(p, o) ==
    /\ AdvanceOffset(p)
    /\ outcomes' = [outcomes EXCEPT ![p] = Append(outcomes[p], o)]

\* chk_to_dbid = bulk_upsert(session, buffer), or its exception handler.
ManualUpsert(p) ==
    /\ ingPc[p] = "upsert"
    /\ \/ /\ csvRows' = BulkUpsertRows(csvRows, buffer[p])
          /\ ingPc' = [ingPc EXCEPT ![p] = "embed"]
          /\ UNCHANGED <<csvFile, outcomes>>
       \/ /\ ManualBatchEnd(p, UpsertFailed)
          /\ UNCHANGED csvRows
    /\ UNCHANGED <<vsIndex, diskVersion, runsLeft, fileMeta, rowCounter, streamPos, buffer>>
    /\ UNCHANGED advVars
    /\ IngOnly

\* unique_embs = embed_srv.embed_texts(unique_texts), or its exception
\* handler: mark_checksums_failed(unique_checksums, str(e)).
ManualEmbed(p) ==
    /\ ingPc[p] = "embed"
    /\ \/ /\ ingPc' = [ingPc EXCEPT ![p] = "store"]
          /\ UNCHANGED <<csvFile, csvRows, outcomes>>
       \/ /\ csvRows' = MarkChecksumsFailed(csvRows, UniqueChecksums(buffer[p]),
                                            EmbeddingError)
          /\ ManualBatchEnd(p, EmbedFailed)
    /\ UNCHANGED <<vsIndex, diskVersion, runsLeft, fileMeta, rowCounter, streamPos, buffer>>
    /\ UNCHANGED advVars
    /\ IngOnly

\* vs_client.add_and_persist(ids_vs, embs_vs, metas_vs), or its exception
\* handler: mark_checksums_failed(failed_checksums, "vector_store_error").
ManualStore(p) ==
    /\ ingPc[p] = "store"
    /\ \/ /\ vsIndex' = vsIndex \cup ParentIds(buffer[p])
          /\ ingPc' = [ingPc EXCEPT ![p] = "markRows"]
          /\ UNCHANGED <<csvFile, csvRows, outcomes>>
       \/ /\ csvRows' = MarkChecksumsFailed(csvRows, UniqueChecksums(buffer[p]),
                                            VectorStoreError)
          /\ ManualBatchEnd(p, IndexFailed)
          /\ UNCHANGED vsIndex
    /\ UNCHANGED <<diskVersion, runsLeft, fileMeta, rowCounter, streamPos, buffer>>
    /\ UNCHANGED advVars
    /\ IngOnly

\* mark_rows_done_with_vector(row_ids_for_vs, vec_ids_for_db_update), then
\* update_last_row_index(current_row_counter); an exception of the first
\* leaves ingest_rows.
ManualMarkDone(p) ==
    /\ ingPc[p] = "markRows"
    /\ \/ /\ csvRows' = MarkRowsDoneWithVector(csvRows, buffer[p])
          /\ ManualBatchEnd(p, BatchOk)
       \/ /\ ingPc' = [ingPc EXCEPT ![p] = "markFailed"]
          /\ UNCHANGED <<csvFile, csvRows, outcomes>>
    /\ UNCHANGED <<vsIndex, diskVersion, runsLeft, fileMeta, rowCounter, streamPos, buffer>>
    /\ UNCHANGED advVars
    /\ IngOnly

\* mark_file_as_done: update_csv_file_status(id, DONE, count_total_rows(path))
MarkFileAsDone(p) ==
    /\ ingPc[p] = "markDone"
    /\ csvFile' = UpdateCsvFileStatus(csvFile, DONE, NumRows)
    /\ ingPc' = [ingPc EXCEPT ![p] = "createTool"]
    /\ UNCHANGED <<csvRows, vsIndex, diskVersion, runsLeft, fileMeta, rowCounter,
                   streamPos, buffer, outcomes>>
    /\ UNCHANGED advVars
    /\ IngOnly

\* registry_mgr.create_tool(...) inside the same try block: it returns and the
\* loop ends, or it raises into the `except Exception` handler.
CreateTool(p) ==
    /\ ingPc[p] = "createTool"
    /\ \/ /\ ingPc' = [ingPc EXCEPT ![p] = "idle"]
          /\ ResetLocals(p)
       \/ /\ ingPc' = [ingPc EXCEPT ![p] = "markFailed"]
          /\ UNCHANGED <<fileMeta, rowCounter, streamPos, buffer, outcomes>>
    /\ UNCHANGED <<dbVars, diskVersion, runsLeft>>
    /\ UNCHANGED advVars
    /\ IngOnly

\* mark_file_as_failed: update_csv_file_status(id, FAILED,
\* file_meta.get("last_row_index")), then session.rollback().
MarkFileAsFailed(p) ==
    /\ ingPc[p] = "markFailed"
    /\ csvFile' = UpdateCsvFileStatus(csvFile, FAILED, fileMeta[p].last_row_index)
    /\ ingPc' = [ingPc EXCEPT ![p] = "idle"]
    /\ ResetLocals(p)
    /\ UNCHANGED <<csvRows, vsIndex, diskVersion, runsLeft>>
    /\ UNCHANGED advVars
    /\ IngOnly

\* The process is interrupted (killed or cancelled) inside ingest_folder: its
\* session ends, which drops a session-level advisory lock it still holds.
Interrupt(p) ==
    /\ ingPc[p] # "idle"
    /\ ingPc' = [ingPc EXCEPT ![p] = "idle"]
    /\ pgLock' = PgAdvisoryUnlock(pgLock, p)
    /\ advPc' = [advPc EXCEPT ![p] = "idle"]
    /\ advAttempt' = [advAttempt EXCEPT ![p] = 0]
    /\ advAcquired' = [advAcquired EXCEPT ![p] = FALSE]
    /\ advTries' = [advTries EXCEPT ![p] = 0]
    /\ advGranted' = [advGranted EXCEPT ![p] = FALSE]
    /\ advUnlocked' = [advUnlocked EXCEPT ![p] = FALSE]
    /\ ResetLocals(p)
    /\ UNCHANGED <<advWait, advRetries>>
    /\ UNCHANGED <<dbVars, diskVersion, runsLeft>>
    /\ IngOnly

\* The file's content on disk changes (a new fingerprint).
FileChanged ==
    /\ diskVersion < MaxVersions
    /\ diskVersion' = diskVersion + 1
    /\ UNCHANGED <<dbVars, ingPc, runsLeft, fileMeta, rowCounter, streamPos,
                   buffer, outcomes>>
    /\ UNCHANGED advVars
    /\ IngOnly

(***************************************************************************)
(*          THE csv_rows TABLE UNDER UPSERT  (rag/crud/crud_row.py)         *)
(***************************************************************************)

\* Distinct row checksums, and the ids the sequence of csv_rows hands out in
\* a behaviour.
NumChecksums == 2
MaxIds       == 4

Checksums == 1..NumChecksums

\* The columns the upsert overwrites on conflict; two versions of a row that
\* differ in every one of them, and a third that differs from the first in
\* the file only.
Payloads ==
    { [external_id |-> 1, file_id |-> 1, content |-> "a", fields |-> "x"],
      [external_id |-> 2, file_id |-> 2, content |-> "b", fields |-> "y"],
      [external_id |-> 1, file_id |-> 2, content |-> "a", fields |-> "x"] }

\* A prepared row as RowStreamer builds it.
RowDicts ==
    { [checksum |-> c, external_id |-> v.external_id, file_id |-> v.file_id,
       content |-> v.content, fields |-> v.fields] : c \in Checksums, v \in Payloads }

\* The `rows` argument: a list of at most BatchSize prepared rows.
RowLists == UNION { [1..n -> RowDicts] : n \in 0..BatchSize }

\* What a call gave back: the mapping, or the statement's exception.
Returned(mapping) == [raised |-> FALSE, mapping |-> mapping]
Raised == [raised |-> TRUE, mapping |-> {}]
NoId   == 0
NoPayload == [external_id |-> 0, file_id |-> 0, content |-> "", fields |-> ""]

\* The overwritten columns of a prepared row.
PayloadOf(r) == [external_id |-> r.external_id, file_id |-> r.file_id,
                 content |-> r.content, fields |-> r.fields]

ChecksumsOf(rows) == { rows[k].checksum : k \in 1..Len(rows) }

\* PostgreSQL rejects an INSERT ... ON CONFLICT DO UPDATE whose VALUES list
\* proposes the same conflict key twice.
AffectsRowTwice(rows) ==
    \E j, k \in 1..Len(rows) : j # k /\ rows[j].checksum = rows[k].checksum

\* The row of the table stored under a checksum (the column is unique).
StoredUnder(table, c) == { t \in table : t.checksum = c }

\* insert(CSVRow).values(rows) with no conflict clause on a table whose
\* checksum column carried no unique index: every proposed row is inserted.
InsertOnlyRow(table, seq, rows, k) ==
    { [id |-> seq + k, checksum |-> rows[k].checksum,
       external_id |-> rows[k].external_id, file_id |-> rows[k].file_id,
       content |-> rows[k].content, fields |-> rows[k].fields] }

\* The row the k-th proposed row leaves in the table: the existing row with
\* its id and the proposed external_id, file_id, content and fields, or a new
\* row whose id is the sequence value drawn for the proposal.
UpsertOneRow(table, seq, rows, k) ==
    LET old == StoredUnder(table, rows[k].checksum)
    IN  IF old # {}
        THEN { [t EXCEPT !.external_id = rows[k].external_id,
                         !.file_id = rows[k].file_id,
                         !.content = rows[k].content,
                         !.fields = rows[k].fields] : t \in old }
        ELSE { [id |-> seq + k, checksum |-> rows[k].checksum,
                external_id |-> rows[k].external_id, file_id |-> rows[k].file_id,
                content |-> rows[k].content, fields |-> rows[k].fields] }

\* The table after the statement of bulk_upsert_rows.
UpsertedTable(table, seq, rows) ==
    { t \in table : t.checksum \notin ChecksumsOf(rows) }
        \cup UNION { UpsertOneRow(table, seq, rows, k) : k \in 1..Len(rows) }

\* RETURNING id, checksum folded into the mapping {checksum -> id}.
ReturnedMapping(table, seq, rows) ==
    UNION { { <<rows[k].checksum, t.id>> : t \in UpsertOneRow(table, seq, rows, k) } :
              k \in 1..Len(rows) }

InitTblVars ==
    /\ rowTable = {}
    /\ rowSeq = 0
    /\ upsertRet = Returned({})
    /\ firstId = [c \in Checksums |-> NoId]
    /\ lastUpsert = [c \in Checksums |-> NoPayload]

\* bulk_upsert_rows(session, rows). An id is drawn from the sequence for every
\* proposed row, whether it is inserted or not.
BulkUpsertRowsCall(rows) ==
    /\ rowSeq + Len(rows) <= MaxIds
    /\ IF rows = <<>>
       THEN /\ upsertRet' = Returned({})
            /\ UNCHANGED <<rowTable, rowSeq, firstId, lastUpsert>>
       ELSE IF AffectsRowTwice(rows)
       THEN /\ upsertRet' = Raised
            /\ rowSeq' = rowSeq + Len(rows)
            /\ UNCHANGED <<rowTable, firstId, lastUpsert>>
       ELSE /\ rowTable' = UpsertedTable(rowTable, rowSeq, rows)
            /\ rowSeq' = rowSeq + Len(rows)
            /\ upsertRet' = Returned(ReturnedMapping(rowTable, rowSeq, rows))
            /\ firstId' = [c \in Checksums |->
                             IF firstId[c] = NoId /\ c \in ChecksumsOf(rows)
                             THEN (CHOOSE m \in upsertRet'.mapping : m[1] = c)[2]
                             ELSE firstId[c]]
            /\ lastUpsert' = [c \in Checksums |->
                             IF c \in ChecksumsOf(rows)
                             THEN PayloadOf(rows[CHOOSE k \in 1..Len(rows) :
                                                    rows[k].checksum = c])
                             ELSE lastUpsert[c]]
    /\ TblOnly

(***************************************************************************)
(*      TOOL START-UP  (manual/registry.py: initialize_all and              *)
(*      wait_until_ready)                                                   *)
(***************************************************************************)

NumTools == 2

Tools  == 1..NumTools
NoTool == 0

\* What a registered adapter exposes.
NoInitializer == "no_initialize"    \* no initialize(), no ready attribute
SetsReady     == "sets_ready"       \* initialize() sets self.ready = True
NoReadyAttr   == "no_ready_attr"    \* initialize(), no ready attribute
StaysUnready  == "stays_unready"    \* initialize() returns and ready stays False
ReadyAtStart  == "ready_at_start"   \* initialize(), ready is True from construction
UnreadyNoInit == "unready_no_init"   \* no initialize(), a ready attribute that is False
AdapterKinds  == {NoInitializer, SetsReady, NoReadyAttr, StaysUnready, ReadyAtStart,
                  UnreadyNoInit}

HasInitialize(kind) == kind \notin {NoInitializer, UnreadyNoInit}
HasReadyAttr(kind)  == kind \in {SetsReady, StaysUnready, ReadyAtStart, UnreadyNoInit}

InitError == "init_error"

\* bool(getattr(adapter, "ready", True))
ReadyOrDefault(kind, ready) == IF HasReadyAttr(kind) THEN ready ELSE TRUE

TaskNone      == "none"
TaskPending   == "pending"
TaskOk        == "ok"
TaskRaised    == "raised"
TaskCancelled == "cancelled"

\* asyncio.wait's two sets when the waiter resumes.
DoneTasks    == { t \in Tools : initTask[t] \in {TaskOk, TaskRaised} }
PendingTasks == { t \in Tools : initTask[t] = TaskPending }

\* register() of every adapter: a fresh ToolEntry each, ready = False.
InitStartVars(kinds) ==
    /\ adapterKind = kinds
    /\ adapterReady = [t \in Tools |-> kinds[t] = ReadyAtStart]
    /\ entryReady = [t \in Tools |-> FALSE]
    /\ lastError = [t \in Tools |-> NoError]
    /\ initTask = [t \in Tools |-> TaskNone]
    /\ initPc = "idle"
    /\ initTimedOut = FALSE
    /\ initExc = NoTool
    /\ failOrder = <<>>
    /\ waitPc = "idle"
    /\ waitExpired = FALSE
    /\ notReady = {}
    /\ waitAfterInit = FALSE

InitStartIdle == InitStartVars([t \in Tools |-> NoInitializer])

\* initialize_all up to `await asyncio.wait(...)`: tools without initialize
\* get their ready flag at once, every other tool gets a task.
InitializeAll ==
    /\ initPc = "idle"
    /\ entryReady' = [t \in Tools |->
                        IF HasInitialize(adapterKind[t]) THEN entryReady[t]
                        ELSE ReadyOrDefault(adapterKind[t], adapterReady[t])]
    /\ initTask' = [t \in Tools |->
                        IF HasInitialize(adapterKind[t]) THEN TaskPending ELSE TaskNone]
    /\ initPc' = IF \E t \in Tools : HasInitialize(adapterKind[t])
                 THEN "waiting" ELSE "returned"
    /\ UNCHANGED <<adapterKind, adapterReady, lastError, initTimedOut, initExc,
                   failOrder, waitPc, waitExpired, notReady, waitAfterInit>>
    /\ StartOnly

\* _init_wrapper: initialize() returned. _emit_event does not suspend, so the
\* wrapper finishes in the same step.
InitWrapperOk(t) ==
    /\ initTask[t] = TaskPending
    /\ adapterReady' = [adapterReady EXCEPT ![t] =
                            IF adapterKind[t] = SetsReady THEN TRUE ELSE @]
    /\ entryReady' = [entryReady EXCEPT ![t] =
                            ReadyOrDefault(adapterKind[t], adapterReady'[t])]
    /\ lastError' = [lastError EXCEPT ![t] = NoError]
    /\ initTask' = [initTask EXCEPT ![t] = TaskOk]
    /\ UNCHANGED <<adapterKind, initPc, initTimedOut, initExc, failOrder, waitPc,
                   waitExpired, notReady, waitAfterInit>>
    /\ StartOnly

\* _init_wrapper: initialize() raised.
InitWrapperRaise(t) ==
    /\ initTask[t] = TaskPending
    /\ entryReady' = [entryReady EXCEPT ![t] = FALSE]
    /\ lastError' = [lastError EXCEPT ![t] = InitError]
    /\ initTask' = [initTask EXCEPT ![t] = TaskRaised]
    /\ failOrder' = Append(failOrder, t)
    /\ UNCHANGED <<adapterKind, adapterReady, initPc, initTimedOut, initExc, waitPc,
                   waitExpired, notReady, waitAfterInit>>
    /\ StartOnly

\* The timeout handle of asyncio.wait fires.
InitTimeoutFires ==
    /\ initPc = "waiting"
    /\ ~initTimedOut
    /\ PendingTasks # {}
    /\ initTimedOut' = TRUE
    /\ UNCHANGED <<adapterKind, adapterReady, entryReady, lastError, initTask, initPc,
                   initExc, failOrder, waitPc, waitExpired, notReady, waitAfterInit>>
    /\ StartOnly

\* The iteration `for d in done` raises the exception of the first failed
\* task it meets; `done` is a set, so that is any failed task.
RaisedOfDone(d) == initTask[d] = TaskRaised

\* No task is cancelled.
LeavePending(tasks) == tasks

\* `for p in pending: p.cancel()`. _init_wrapper catches Exception only, so a
\* cancelled wrapper runs no more of its code.
CancelPending(tasks) ==
    [t \in Tools |-> IF tasks[t] = TaskPending THEN TaskCancelled ELSE tasks[t]]

\* initialize_all after asyncio.wait(..., FIRST_EXCEPTION, timeout) resumed:
\* the waiter was released by a failed task, by the last task to finish or by
\* the timeout, and resumes in a later turn of the event loop.
InitializeAllResume ==
    /\ initPc = "waiting"
    /\ \/ PendingTasks = {}
       \/ \E t \in Tools : initTask[t] = TaskRaised
       \/ initTimedOut
    /\ IF \E d \in DoneTasks : initTask[d] = TaskRaised
       THEN /\ \E d \in DoneTasks : RaisedOfDone(d) /\ initExc' = d
            /\ initPc' = "raised"
            /\ initTask' = CancelPending(initTask)
       ELSE IF PendingTasks # {}
       THEN /\ initPc' = "timeout"
            /\ initTask' = CancelPending(initTask)
            /\ UNCHANGED initExc
       ELSE /\ initPc' = "returned"
            /\ UNCHANGED <<initTask, initExc>>
    /\ UNCHANGED <<adapterKind, adapterReady, entryReady, lastError, initTimedOut,
                   failOrder, waitPc, waitExpired, notReady, waitAfterInit>>
    /\ StartOnly

\* The test with the adapter's attribute left out.
ToolOkByEntry(t) == entryReady[t]

\* wait_until_ready's test of one entry.
ToolOk(t) ==
    IF HasReadyAttr(adapterKind[t]) THEN adapterReady[t] ELSE entryReady[t]

\* start = time.time()
WaitUntilReady ==
    /\ waitPc = "idle"
    /\ waitPc' = "polling"
    /\ waitAfterInit' = (initPc = "returned")
    /\ UNCHANGED <<adapterKind, adapterReady, entryReady, lastError, initTask, initPc,
                   initTimedOut, initExc, failOrder, waitExpired, notReady>>
    /\ StartOnly

\* Time passes beyond the timeout of wait_until_ready.
WaitTimeElapses ==
    /\ waitPc = "polling"
    /\ ~waitExpired
    /\ waitExpired' = TRUE
    /\ UNCHANGED <<adapterKind, adapterReady, entryReady, lastError, initTask, initPc,
                   initTimedOut, initExc, failOrder, waitPc, notReady, waitAfterInit>>
    /\ StartOnly

\* One turn of the loop of wait_until_ready: poll, then return, raise or sleep.
WaitPoll ==
    /\ waitPc = "polling"
    /\ notReady' = { t \in Tools : ~ToolOk(t) }
    /\ waitPc' = IF notReady' = {} THEN "returned"
                 ELSE IF waitExpired THEN "timeout"
                 ELSE "polling"
    /\ UNCHANGED <<adapterKind, adapterReady, entryReady, lastError, initTask, initPc,
                   initTimedOut, initExc, failOrder, waitExpired, waitAfterInit>>
    /\ StartOnly

(***************************************************************************)
(*      THE CALL TABLE  (manual/registry.py: register_call, cancel_call)    *)
(***************************************************************************)

NumCallIds    == 1
NumCallTasks  == 2

CallIds    == 1..NumCallIds
CallTasks  == 1..NumCallTasks
\* Two concurrent callers of cancel_call.
Cancellers == {1, 2}
NoCallId   == 0
NoTask     == 0

Running    == "running"         \* the task has not finished
Cancelling == "cancelling"      \* a cancellation was requested and not yet delivered
Finished   == "finished"        \* the task returned or raised
Cancelled  == "cancelled"       \* the task ended with CancelledError

\* Task.done()
TaskDone(state) == state \in {Finished, Cancelled}

\* "Returns True if cancelled (or already done)".
TaskCancelReturnsAlways(state) == TRUE

\* The value of Task.cancel(): False for a task that is done.
TaskCancelReturns(state) == ~TaskDone(state)

\* The task after Task.cancel().
TaskCancelRequested(state) == IF TaskDone(state) THEN state ELSE Cancelling

NoReturn == "none"
RetTrue  == "true"
RetFalse == "false"
BoolRet(b) == IF b THEN RetTrue ELSE RetFalse

InitCallVars ==
    /\ callTable = [i \in CallIds |-> NoTask]
    /\ taskState = [k \in CallTasks |-> Running]
    /\ cancelPc = [c \in Cancellers |-> "idle"]
    /\ cancelId = [c \in Cancellers |-> NoCallId]
    /\ cancelTask = [c \in Cancellers |-> NoTask]
    /\ cancelled = [c \in Cancellers |-> FALSE]
    /\ cancelRet = [c \in Cancellers |-> NoReturn]

\* register_call(call_id, task); without a call_id a fresh one is made.
RegisterCall(call_id, k) ==
    /\ \E i \in CallIds :
          /\ IF call_id = NoCallId THEN callTable[i] = NoTask ELSE i = call_id
          /\ callTable' = [callTable EXCEPT ![i] = k]
    /\ UNCHANGED <<taskState, cancelPc, cancelId, cancelTask, cancelled, cancelRet>>
    /\ CallOnly

\* The task of a call runs to its end: it returns or raises, or, after a
\* cancellation request, ends cancelled or completes all the same.
CallTaskEnds(k) ==
    /\ ~TaskDone(taskState[k])
    /\ \E end \in {Finished, Cancelled} :
          /\ end = Cancelled => taskState[k] = Cancelling
          /\ taskState' = [taskState EXCEPT ![k] = end]
    /\ UNCHANGED <<callTable, cancelPc, cancelId, cancelTask, cancelled, cancelRet>>
    /\ CallOnly

\* cancel_call up to `await asyncio.wait_for(task, timeout=2.0)`.
CancelCall(c, call_id) ==
    /\ cancelPc[c] = "idle"
    /\ cancelId' = [cancelId EXCEPT ![c] = call_id]
    /\ cancelTask' = [cancelTask EXCEPT ![c] = callTable[call_id]]
    /\ IF callTable[call_id] = NoTask
       THEN /\ cancelPc' = [cancelPc EXCEPT ![c] = "returned"]
            /\ cancelRet' = [cancelRet EXCEPT ![c] = RetFalse]
            /\ UNCHANGED <<taskState, cancelled>>
       ELSE /\ cancelled' = [cancelled EXCEPT ![c] =
                                TaskCancelReturns(taskState[callTable[call_id]])]
            /\ taskState' = [taskState EXCEPT ![callTable[call_id]] =
                                TaskCancelRequested(@)]
            /\ cancelPc' = [cancelPc EXCEPT ![c] = "waiting"]
            /\ UNCHANGED cancelRet
    /\ UNCHANGED callTable
    /\ CallOnly

\* cancel_call after wait_for: the task is done (wait_for returned or raised,
\* every exception is swallowed); pop the id and return `cancelled`.
CancelCallReturn(c) ==
    /\ cancelPc[c] = "waiting"
    /\ TaskDone(taskState[cancelTask[c]])
    /\ callTable' = [callTable EXCEPT ![cancelId[c]] = NoTask]
    /\ cancelRet' = [cancelRet EXCEPT ![c] = BoolRet(cancelled[c])]
    /\ cancelPc' = [cancelPc EXCEPT ![c] = "returned"]
    /\ UNCHANGED <<taskState, cancelId, cancelTask, cancelled>>
    /\ CallOnly

(***************************************************************************)
(*      CsvRagTool.initialize AND run  (rag/rag.py)                         *)
(***************************************************************************)

\* retries=5 of the advisory_lock call in initialize.
InitializeRetries == 5

NotRun         == "none"
Served         == "served"              \* {"result": ...} or the query's own error
NotInitialized == "not_initialized"     \* {"error": "Tool not initialized."}

InitToolVars ==
    /\ toolPc = [s \in Sessions |-> "new"]
    /\ toolReady = [s \in Sessions |-> FALSE]
    /\ runResult = [s \in Sessions |-> NotRun]

\* initialize() up to `async with advisory_lock(session, 1000, wait=False,
\* retries=5, delay=0.1)`: the registry row is validated or created.
ToolInitialize(s) ==
    /\ toolPc[s] = "new"
    /\ advPc[s] = "idle"
    /\ AdvEnterWith(s, FALSE, InitializeRetries)
    /\ toolPc' = [toolPc EXCEPT ![s] = "locking"]
    /\ UNCHANGED <<toolReady, runResult>>
    /\ ToolOnly

\* The body of the with-block: without the lock only a log line; with it
\* initialize_tool, then self._ready = True, or initialize_tool raises.
ToolLockBody(s) ==
    /\ toolPc[s] = "locking"
    /\ advPc[s] = "yielded"
    /\ advPc' = [advPc EXCEPT ![s] = "exiting"]
    /\ IF ~advAcquired[s]
       THEN /\ toolPc' = [toolPc EXCEPT ![s] = "initialized"]
            /\ UNCHANGED toolReady
       ELSE \/ /\ toolPc' = [toolPc EXCEPT ![s] = "initialized"]
               /\ toolReady' = [toolReady EXCEPT ![s] = TRUE]
            \/ /\ toolPc' = [toolPc EXCEPT ![s] = "raised"]
               /\ UNCHANGED toolReady
    /\ UNCHANGED <<pgLock, advWait, advRetries, advAttempt, advAcquired,
                   advTries, advGranted, advUnlocked>>
    /\ UNCHANGED runResult
    /\ ToolOnly

\* run(args) after initialize() has returned.
ToolRun(s) ==
    /\ toolPc[s] = "initialized"
    /\ advPc[s] = "exited"
    /\ runResult' = [runResult EXCEPT ![s] =
                        IF ~toolReady[s] THEN NotInitialized ELSE Served]
    /\ UNCHANGED <<toolPc, toolReady>>
    /\ UNCHANGED advVars
    /\ ToolOnly

(***************************************************************************)
(*      CsvRagTool.ingest_folder: THE LOOP OVER THE SOURCES  (rag/rag.py)   *)
(***************************************************************************)

NumSources == 3
Sources == 1..NumSources

InitFolderVars(statuses) ==
    /\ srcStatus = statuses
    /\ folderPc = "idle"
    /\ folderIdx = 0
    /\ srcRaised = {}

InitFolderIdle == InitFolderVars([s \in Sources |-> PENDING])

\* `for p in file_paths`: the loop goes to the source after folderIdx, or
\* ingest_folder returns after the last one.
NextSource ==
    IF folderIdx < NumSources
    THEN folderPc' = "register" /\ folderIdx' = folderIdx + 1
    ELSE folderPc' = "returned" /\ UNCHANGED folderIdx

\* ingest_folder up to the loop: the tool is ready, the advisory lock was
\* granted and scan_folder listed the sources.
FolderStart ==
    /\ folderPc = "idle"
    /\ NextSource
    /\ UNCHANGED <<srcStatus, srcRaised>>
    /\ FolderOnly

\* get_or_register_file (outside the try block) and the status test: an
\* exception leaves ingest_folder; a DONE source is skipped; a PENDING or
\* FAILED one enters the try block.
FolderRegister ==
    /\ folderPc = "register"
    /\ \/ /\ folderPc' = "registerRaised"
          /\ UNCHANGED <<folderIdx, srcRaised>>
       \/ /\ srcStatus[folderIdx] = DONE
          /\ NextSource
          /\ UNCHANGED srcRaised
       \/ /\ srcStatus[folderIdx] # DONE
          /\ folderPc' = "try"
          /\ UNCHANGED <<folderIdx, srcRaised>>
    /\ UNCHANGED srcStatus
    /\ FolderOnly

\* The try block: ingest_rows, mark_file_as_done, create_tool. It completes
\* with the source DONE, or one of the three raises: ingest_rows and
\* mark_file_as_done before the status is written, create_tool after it.
FolderProcess ==
    /\ folderPc = "try"
    /\ \/ /\ srcStatus' = [srcStatus EXCEPT ![folderIdx] = DONE]
          /\ NextSource
          /\ UNCHANGED srcRaised
       \/ /\ \E written \in BOOLEAN :
                srcStatus' = [srcStatus EXCEPT ![folderIdx] =
                                 IF written THEN DONE ELSE @]
          /\ folderPc' = "except"
          /\ srcRaised' = srcRaised \cup {folderIdx}
          /\ UNCHANGED folderIdx
    /\ FolderOnly

\* Whether mark_file_as_failed (an UPDATE and a commit on the session the
\* failed statement ran on) raises.
MarkFailedRaises == BOOLEAN

\* except Exception: mark_file_as_failed(session, file_meta); an exception
\* of it leaves the handler and ingest_folder.
FolderMarkFailed ==
    /\ folderPc = "except"
    /\ \E raises \in MarkFailedRaises :
         IF raises
         THEN /\ folderPc' = "raised"
              /\ UNCHANGED srcStatus
         ELSE /\ srcStatus' = [srcStatus EXCEPT ![folderIdx] = FAILED]
              /\ folderPc' = "rollback"
    /\ UNCHANGED <<folderIdx, srcRaised>>
    /\ FolderOnly

\* session.rollback() at the end of the handler, after the commit of
\* update_csv_file_status; an exception of it leaves ingest_folder.
FolderRollback ==
    /\ folderPc = "rollback"
    /\ \/ NextSource
       \/ folderPc' = "raised" /\ UNCHANGED folderIdx
    /\ UNCHANGED <<srcStatus, srcRaised>>
    /\ FolderOnly

(***************************************************************************)
(*               LazyToolWrapper  (helpers/lazy_wrapper.py)                 *)
(***************************************************************************)

NumLazyCallers == 2
LazyCallers == 1..NumLazyCallers

\* self._lock = None and self._instance = None; lock objects and instances
\* are named after the caller that created them.
NoLock == 0
NoInstance == 0
NoHolder == 0

InitLazyVars(mode) ==
    /\ lzMode = mode
    /\ lzLock = NoLock
    /\ lzHeld = [l \in LazyCallers |-> NoHolder]
    /\ lzInstance = NoInstance
    /\ lzReady = FALSE
    /\ lzPc = [c \in LazyCallers |-> "idle"]
    /\ lzOp = [c \in LazyCallers |-> "none"]
    /\ lzMyLock = [c \in LazyCallers |-> NoLock]
    /\ instState = [c \in LazyCallers |-> "none"]
    /\ factoryCalls = 0
    /\ ranEarly = FALSE

InitLazyIdle == InitLazyVars("tasks")

\* A caller that is not at a statement it can execute now: not called yet,
\* returned, awaiting the initialize() task, or waiting for a held lock.
Suspended(c) ==
    \/ lzPc[c] \in {"idle", "initWait", "done", "raised"}
    \/ lzPc[c] = "acquire" /\ lzHeld[lzMyLock[c]] # NoHolder

\* Tasks of one event loop run from one await that suspends to the next
\* without interleaving; threads interleave at every statement.
MayStep(c) ==
    lzMode = "threads" \/ \A other \in LazyCallers \ {c} : Suspended(other)

Lz(c, pc) == lzPc' = [lzPc EXCEPT ![c] = pc]

\* Leaving `async with self._lock`.
LzRelease(c) == lzHeld' = [lzHeld EXCEPT ![lzMyLock[c]] = NoHolder]

\* initialize() or run(payload) is called: _ensure_instance, `if self._ready`.
LzEnter(c, op) ==
    /\ lzPc[c] = "idle"
    /\ MayStep(c)
    /\ lzOp' = [lzOp EXCEPT ![c] = op]
    /\ Lz(c, IF lzReady THEN "afterEnsure" ELSE "lockCheck")
    /\ UNCHANGED <<lzMode, lzLock, lzHeld, lzInstance, lzReady, lzMyLock, instState,
                   factoryCalls, ranEarly>>
    /\ LazyOnly

\* if self._lock is None:
LzLockCheck(c) ==
    /\ lzPc[c] = "lockCheck"
    /\ MayStep(c)
    /\ Lz(c, IF lzLock = NoLock THEN "lockCreate" ELSE "lockRead")
    /\ UNCHANGED <<lzMode, lzLock, lzHeld, lzInstance, lzReady, lzOp, lzMyLock,
                   instState, factoryCalls, ranEarly>>
    /\ LazyOnly

\* self._lock = asyncio.Lock()
LzLockCreate(c) ==
    /\ lzPc[c] = "lockCreate"
    /\ MayStep(c)
    /\ lzLock' = c
    /\ Lz(c, "lockRead")
    /\ UNCHANGED <<lzMode, lzHeld, lzInstance, lzReady, lzOp, lzMyLock, instState,
                   factoryCalls, ranEarly>>
    /\ LazyOnly

\* `async with self._lock`: the attribute is read,
LzLockRead(c) ==
    /\ lzPc[c] = "lockRead"
    /\ MayStep(c)
    /\ lzMyLock' = [lzMyLock EXCEPT ![c] = lzLock]
    /\ Lz(c, "acquire")
    /\ UNCHANGED <<lzMode, lzLock, lzHeld, lzInstance, lzReady, lzOp, instState,
                   factoryCalls, ranEarly>>
    /\ LazyOnly

\* and that lock object is acquired once it is free.
LzAcquire(c) ==
    /\ lzPc[c] = "acquire"
    /\ MayStep(c)
    /\ lzHeld[lzMyLock[c]] = NoHolder
    /\ lzHeld' = [lzHeld EXCEPT ![lzMyLock[c]] = c]
    /\ Lz(c, "recheck")
    /\ UNCHANGED <<lzMode, lzLock, lzInstance, lzReady, lzOp, lzMyLock, instState,
                   factoryCalls, ranEarly>>
    /\ LazyOnly

\* The second `if self._ready: return` inside the lock.
LzRecheck(c) ==
    /\ lzPc[c] = "recheck"
    /\ MayStep(c)
    /\ IF lzReady
       THEN Lz(c, "afterEnsure") /\ LzRelease(c)
       ELSE Lz(c, "factory") /\ UNCHANGED lzHeld
    /\ UNCHANGED <<lzMode, lzLock, lzInstance, lzReady, lzOp, lzMyLock, instState,
                   factoryCalls, ranEarly>>
    /\ LazyOnly

\* inst = self.factory(); self._instance = inst -- or factory() raises.
LzFactory(c) ==
    /\ lzPc[c] = "factory"
    /\ MayStep(c)
    /\ factoryCalls' = factoryCalls + 1
    /\ \/ /\ lzInstance' = c
          /\ instState' = [instState EXCEPT ![c] = "created"]
          /\ Lz(c, "init")
          /\ UNCHANGED lzHeld
       \/ /\ Lz(c, "raised")
          /\ LzRelease(c)
          /\ UNCHANGED <<lzInstance, instState>>
    /\ UNCHANGED <<lzMode, lzLock, lzReady, lzOp, lzMyLock, ranEarly>>
    /\ LazyOnly

\* result = init(); task = loop.create_task(result); await task
LzInitStart(c) ==
    /\ lzPc[c] = "init"
    /\ MayStep(c)
    /\ instState' = [instState EXCEPT ![c] = "initializing"]
    /\ Lz(c, "initWait")
    /\ UNCHANGED <<lzMode, lzLock, lzHeld, lzInstance, lzReady, lzOp, lzMyLock,
                   factoryCalls, ranEarly>>
    /\ LazyOnly

\* The instance's initialize() ends: it returned, or it raised and the
\* exception leaves _ensure_instance through the lock.
LzInitEnd(c) ==
    /\ lzPc[c] = "initWait"
    /\ MayStep(c)
    /\ \/ /\ instState' = [instState EXCEPT ![c] = "initialized"]
          /\ Lz(c, "setReady")
          /\ UNCHANGED lzHeld
       \/ /\ instState' = [instState EXCEPT ![c] = "failed"]
          /\ Lz(c, "raised")
          /\ LzRelease(c)
    /\ UNCHANGED <<lzMode, lzLock, lzInstance, lzReady, lzOp, lzMyLock, factoryCalls,
                   ranEarly>>
    /\ LazyOnly

\* self._ready = True, and the lock is left.
LzSetReady(c) ==
    /\ lzPc[c] = "setReady"
    /\ MayStep(c)
    /\ lzReady' = TRUE
    /\ LzRelease(c)
    /\ Lz(c, "afterEnsure")
    /\ UNCHANGED <<lzMode, lzLock, lzInstance, lzOp, lzMyLock, instState, factoryCalls,
                   ranEarly>>
    /\ LazyOnly

\* After _ensure_instance: initialize() returns; run() raises unless ready
\* and an instance is set, and otherwise calls self._instance.run(args).
LzAfterEnsure(c) ==
    /\ lzPc[c] = "afterEnsure"
    /\ MayStep(c)
    /\ IF lzOp[c] = "initialize"
       THEN Lz(c, "done") /\ UNCHANGED ranEarly
       ELSE IF ~lzReady \/ lzInstance = NoInstance
            THEN Lz(c, "raised") /\ UNCHANGED ranEarly
            ELSE /\ Lz(c, "done")
                 /\ ranEarly' = (ranEarly \/ instState[lzInstance] # "initialized")
    /\ UNCHANGED <<lzMode, lzLock, lzHeld, lzInstance, lzReady, lzOp, lzMyLock,
                   instState, factoryCalls>>
    /\ LazyOnly

(***************************************************************************)
(*      REGISTER AND UNREGISTER WHILE SLOTS ARE HELD  (manual/registry.py)  *)
(***************************************************************************)

\* ToolEntry objects created in one run (register calls for the name).
MaxEntries == 3

EntryObjects == 1..MaxEntries
NoObject == 0

InitReregVars ==
    /\ toolsEntry = NoObject
    /\ entryCount = [e \in EntryObjects |-> 0]
    /\ ctxEntry = [c \in Callers |-> NoObject]

\* ToolEntry objects that neither _tools nor an open slot refers to.
FreeObjects == EntryObjects \ ({toolsEntry} \cup {ctxEntry[c] : c \in Callers})

\* ToolRegistry.register(adapter) for the name, registered or not: a new
\* ToolEntry (running_count 0, no semaphore: concurrency_limit is None) is
\* stored under the name, replacing the entry that was there.
RegisterAgain ==
    /\ FreeObjects # {}
    /\ LET e == CHOOSE x \in FreeObjects : \A y \in FreeObjects : x <= y
       IN /\ toolsEntry' = e
          /\ entryCount' = [entryCount EXCEPT ![e] = 0]
    /\ UNCHANGED ctxEntry
    /\ ReregOnly

\* ToolRegistry.unregister(name): self._tools.pop(name, None).
Unregister ==
    /\ toolsEntry # NoObject
    /\ toolsEntry' = NoObject
    /\ UNCHANGED <<entryCount, ctxEntry>>
    /\ ReregOnly

\* invoke_slot(name) and __aenter__ for a tool without a semaphore: the ctx
\* keeps the entry found under the name and increments its running_count.
\* (An unknown name raises RegistryError and no slot is opened.)
SlotEnter(c) ==
    /\ ctxEntry[c] = NoObject
    /\ toolsEntry # NoObject
    /\ ctxEntry' = [ctxEntry EXCEPT ![c] = toolsEntry]
    /\ entryCount' = [entryCount EXCEPT ![toolsEntry] = @ + 1]
    /\ UNCHANGED toolsEntry
    /\ ReregOnly

\* __aexit__: running_count of the ctx's own entry is decremented.
SlotExit(c) ==
    /\ ctxEntry[c] # NoObject
    /\ entryCount' = [entryCount EXCEPT ![ctxEntry[c]] = Max(0, @ - 1)]
    /\ ctxEntry' = [ctxEntry EXCEPT ![c] = NoObject]
    /\ UNCHANGED toolsEntry
    /\ ReregOnly

\* get_status()["tools"][name]["running_count"]
GetStatusRunningCount == entryCount[toolsEntry]

(***************************************************************************)
(*          THE STDIO TRANSPORT  (manual/transports/stdio.py)               *)
(***************************************************************************)

\* tools/call requests sent in one run, and the call_id values they carry.
NumRequests  == 2
NumClientIds == 2
NumCancelRequests == 1

\* The runner task of request c is task c of the call table's tasks.
Requests  == 1..NumRequests
ClientIds == 1..NumClientIds
\* The tools/cancel requests sent in one run are handled by the first
\* callers of cancel_call.
CancelRequests == 1..NumCancelRequests

\* The runner task of a request that has not reached create_task.
NotCreated == "notCreated"

\* What the runner task of a request produced: a value (the {"error": ...}
\* dict of a tool exception included), an async generator, or CancelledError.
NoResult        == "none"
ValueResult     == "value"
ToolRaised      == "error"
StreamResult    == "stream"
CancelledResult == "cancelled"

InitRpcVars ==
    /\ rpcPc = [c \in Requests |-> "none"]
    /\ rpcId = [c \in Requests |-> NoCallId]
    /\ rpcTask = [c \in Requests |-> NoTask]
    /\ rpcResult = [c \in Requests |-> NoResult]
    /\ responses = [c \in Requests |-> 0]

InitLastIdle == InitReregVars /\ InitRpcVars

\* A step of the transport: the registry's slots, the call table and the
\* requests change, the rest does not.
RpcOnly == UNCHANGED <<leaseVars, advVars, ingVars, tblVars, startVars, toolVars,
                       folderVars, lazyVars, limVars, eventVars, reregVars>>

\* _handle_message for {"method": "tools/call", "id": ..., "params": {"tool":
\* name, "call_id": id}}: create_task(_run_tool_and_stream(...)).
ToolsCall(c, id) ==
    /\ rpcPc[c] = "none"
    /\ rpcPc' = [rpcPc EXCEPT ![c] = "accepted"]
    /\ rpcId' = [rpcId EXCEPT ![c] = id]
    /\ UNCHANGED <<rpcTask, rpcResult, responses, regVars, callVars>>
    /\ RpcOnly

\* A handler of _run_tool_and_stream without the `except CancelledError`
\* clause.
ResponsesWithoutCancelClause(result) == IF result = CancelledResult THEN 0 ELSE 1

\* JSON-RPC responses _run_tool_and_stream writes for a request id once the
\* awaited task has ended: the result (lines 204, 207), or the error of the
\* `except asyncio.CancelledError` clause (line 215).
ResponsesWritten(result) == 1

\* After __aenter__: task = create_task(_runner()); register_call(call_id,
\* task) stores the task under the id, over whatever was there; `await task`.
EnterBody(c) ==
    /\ taskState' = [taskState EXCEPT ![c] = Running]
    /\ callTable' = [callTable EXCEPT ![rpcId[c]] = c]
    /\ rpcPc' = [rpcPc EXCEPT ![c] = "awaitTask"]
    /\ UNCHANGED <<rpcId, rpcTask, rpcResult, responses>>

\* _run_tool_and_stream up to its first suspension: an unknown tool is
\* answered with error -32004; otherwise invoke_slot and __aenter__, and with
\* a free permit the runner task is created and registered.
RunToolStart(c) ==
    /\ rpcPc[c] = "accepted"
    /\ IF ~entry.registered
       THEN /\ responses' = [responses EXCEPT ![c] = @ + 1]
            /\ rpcPc' = [rpcPc EXCEPT ![c] = "done"]
            /\ UNCHANGED <<rpcId, rpcTask, rpcResult, regVars, callTable, taskState>>
       ELSE /\ InvokeSlotStep(c)
            /\ IF callPc'[c] = "inside"
               THEN EnterBody(c)
               ELSE /\ rpcPc' = [rpcPc EXCEPT ![c] = "slotWait"]
                    /\ UNCHANGED <<rpcId, rpcTask, rpcResult, responses, callTable, taskState>>
    /\ UNCHANGED <<cancelPc, cancelId, cancelTask, cancelled, cancelRet>>
    /\ RpcOnly

\* __aenter__ resumes with the permit; the runner task is created and
\* registered.
RunToolResume(c) ==
    /\ rpcPc[c] = "slotWait"
    /\ ResumeEnterStep(c)
    /\ EnterBody(c)
    /\ UNCHANGED <<cancelPc, cancelId, cancelTask, cancelled, cancelRet>>
    /\ RpcOnly

\* The runner task ends: adapter.run returned a value or an async generator,
\* raised (the runner returns {"error": str(e)}), or, after a cancellation
\* request, ended with CancelledError.
RunnerEnds(c) ==
    /\ rpcPc[c] = "awaitTask"
    /\ ~TaskDone(taskState[c])
    /\ \E res \in {ValueResult, ToolRaised, StreamResult, CancelledResult} :
          /\ res = CancelledResult => taskState[c] = Cancelling
          /\ rpcResult' = [rpcResult EXCEPT ![c] = res]
          /\ taskState' = [taskState EXCEPT ![c] =
                              IF res = CancelledResult THEN Cancelled ELSE Finished]
    /\ UNCHANGED <<rpcPc, rpcId, rpcTask, responses, regVars, callTable,
                   cancelPc, cancelId, cancelTask, cancelled, cancelRet>>
    /\ RpcOnly

\* finally: cancel_call(real_call_id), then __aexit__ of the slot. The task
\* found under the id is cancelled; when it is done already wait_for returns
\* at once, the id is popped and the slot is left; otherwise the request is
\* suspended in wait_for.
FinallyCancel(c) ==
    LET task == callTable[rpcId[c]]
    IN IF task = NoTask
       THEN /\ ExitSlotStep(c)
            /\ rpcPc' = [rpcPc EXCEPT ![c] = "done"]
            /\ UNCHANGED <<rpcTask, callTable, taskState>>
       ELSE /\ rpcTask' = [rpcTask EXCEPT ![c] = task]
            /\ taskState' = [taskState EXCEPT ![task] = TaskCancelRequested(@)]
            /\ IF TaskDone(taskState[task])
               THEN /\ callTable' = [callTable EXCEPT ![rpcId[c]] = NoTask]
                    /\ ExitSlotStep(c)
                    /\ rpcPc' = [rpcPc EXCEPT ![c] = "done"]
               ELSE /\ rpcPc' = [rpcPc EXCEPT ![c] = "finallyWait"]
                    /\ UNCHANGED <<callTable, regVars>>

\* `res = await task` resumes: a value is answered with a result, a
\* CancelledError with the cancelled notification and error -32800, and the
\* finally block follows; an async generator is iterated first.
AwaitReturns(c) ==
    /\ rpcPc[c] = "awaitTask"
    /\ TaskDone(taskState[c])
    /\ IF rpcResult[c] = StreamResult
       THEN /\ rpcPc' = [rpcPc EXCEPT ![c] = "streaming"]
            /\ UNCHANGED <<rpcTask, responses, regVars, callTable, taskState>>
       ELSE /\ responses' = [responses EXCEPT ![c] = @ + ResponsesWritten(rpcResult[c])]
            /\ FinallyCancel(c)
    /\ UNCHANGED <<rpcId, rpcResult, cancelPc, cancelId, cancelTask, cancelled, cancelRet>>
    /\ RpcOnly

\* The async generator is exhausted (the done notification and the result)
\* or raises (error -32000); the finally block follows.
StreamEnds(c) ==
    /\ rpcPc[c] = "streaming"
    /\ responses' = [responses EXCEPT ![c] = @ + 1]
    /\ FinallyCancel(c)
    /\ UNCHANGED <<rpcId, rpcResult, cancelPc, cancelId, cancelTask, cancelled, cancelRet>>
    /\ RpcOnly

\* wait_for in the finally block's cancel_call returns or raises: the id is
\* popped, whatever is stored under it, and the slot is left.
FinallyResume(c) ==
    /\ rpcPc[c] = "finallyWait"
    /\ TaskDone(taskState[rpcTask[c]])
    /\ callTable' = [callTable EXCEPT ![rpcId[c]] = NoTask]
    /\ ExitSlotStep(c)
    /\ rpcPc' = [rpcPc EXCEPT ![c] = "done"]
    /\ UNCHANGED <<rpcId, rpcTask, rpcResult, responses, taskState,
                   cancelPc, cancelId, cancelTask, cancelled, cancelRet>>
    /\ RpcOnly

(***************************************************************************)
(*                            SPECIFICATIONS                                *)
(***************************************************************************)

InitMoreIdle == InitFolderIdle /\ InitLazyIdle /\ InitLimVars /\ InitSlotLog /\ InitLastIdle

InitRestIdle == InitCallVars /\ InitToolVars /\ InitMoreIdle

InitOldIdle ==
    /\ InitLeaseVars /\ InitRegVars /\ InitAdvVars /\ InitIngVars /\ InitTblVars
    /\ InitStartIdle

InitLease == InitLeaseVars /\ InitRegVars /\ InitAdvVars /\ InitIngVars /\ InitTblVars
                 /\ InitStartIdle /\ InitRestIdle

NextLease ==
    \/ \E t \in Tasks : TaskAcquire(t)
    \/ \E t \in Tasks : TaskLockInfo(t)
    \/ \E t \in Tasks : TaskRetryAcquire(t)
    \/ \E t \in Tasks : TaskBody(t)
    \/ \E t \in Tasks : ReleaseStop(t)
    \/ \E t \in Tasks : ReleaseEval(t)
    \/ \E t \in Tasks : ReleaseFallbackGet(t)
    \/ \E t \in Tasks : ReleaseFallbackDelete(t)
    \/ \E t \in Tasks : ReleaseFinally(t)
    \/ \E t \in Tasks : RenewWait(t)
    \/ \E t \in Tasks : RenewGet(t)
    \/ \E t \in Tasks : RenewExpire(t)
    \/ Tick

SpecLease == InitLease /\ [][NextLease]_vars

InitRegistry == InitLeaseVars /\ InitRegVars /\ InitAdvVars /\ InitIngVars /\ InitTblVars
                 /\ InitStartIdle /\ InitRestIdle

NextRegistry ==
    \/ \E limit \in {NoLimit} \cup 1..MaxLimit : Register(limit)
    \/ \E c \in Callers : InvokeSlot(c)
    \/ \E c \in Callers : ResumeEnter(c)
    \/ \E c \in Callers : ExitSlot(c)

SpecRegistry == InitRegistry /\ [][NextRegistry]_vars

\* The event loop runs every task that is ready, and every admitted caller
\* eventually leaves its slot.
FairSpecRegistry ==
    /\ SpecRegistry
    /\ \A c \in Callers : WF_vars(ResumeEnter(c)) /\ WF_vars(ExitSlot(c))

InitAdvisory == InitLeaseVars /\ InitRegVars /\ InitAdvVars /\ InitIngVars /\ InitTblVars
                 /\ InitStartIdle /\ InitRestIdle

NextAdvisory ==
    \/ \E s \in Sessions, wait \in BOOLEAN, retries \in 0..MaxRetriesArg :
            AdvEnter(s, wait, retries)
    \/ \E s \in Sessions : AdvTry(s)
    \/ \E s \in Sessions : AdvSleep(s)
    \/ \E s \in Sessions : AdvBody(s)
    \/ \E s \in Sessions : AdvExit(s)

SpecAdvisory == InitAdvisory /\ [][NextAdvisory]_vars

\* Two processes call ingest_folder on the same folder, once each.
InitIngest ==
    /\ InitLeaseVars /\ InitRegVars /\ InitAdvVars /\ InitTblVars /\ InitStartIdle /\ InitRestIdle
    /\ InitIngRuns([p \in Sessions |-> 1])

IngestStep(p) ==
    \/ IngestStart(p)
    \/ AdvTry(p)
    \/ AdvSleep(p)
    \/ IngestLockBody(p)
    \/ AdvExit(p)
    \/ IngestReturn(p)
    \/ ScanFolder(p)
    \/ RegisterFile(p)
    \/ StreamBatch(p)
    \/ BatchUpsert(p)
    \/ BatchEmbed(p)
    \/ BatchStore(p)
    \/ BatchMarkDone(p)
    \/ MarkFileAsDone(p)
    \/ CreateTool(p)
    \/ MarkFileAsFailed(p)

NextIngest == \E p \in Sessions : IngestStep(p)

SpecIngest == InitIngest /\ [][NextIngest]_vars

\* A single process calls ingest_folder repeatedly: a call may be interrupted
\* and is then started again, and the file may change on disk between or
\* during calls. With one session the first pg_try_advisory_lock succeeds, so
\* the retry sleep and the early return of ingest_folder do not occur.
Restarted == 1

InitResume ==
    /\ InitLeaseVars /\ InitRegVars /\ InitAdvVars /\ InitTblVars /\ InitStartIdle /\ InitRestIdle
    /\ InitIngRuns([p \in Sessions |-> IF p = Restarted THEN MaxRuns ELSE 0])

NextResume ==
    \/ IngestStart(Restarted)
    \/ AdvTry(Restarted)
    \/ IngestLockBody(Restarted)
    \/ AdvExit(Restarted)
    \/ ScanFolder(Restarted)
    \/ RegisterFile(Restarted)
    \/ StreamBatch(Restarted)
    \/ BatchUpsert(Restarted)
    \/ BatchEmbed(Restarted)
    \/ BatchStore(Restarted)
    \/ BatchMarkDone(Restarted)
    \/ MarkFileAsDone(Restarted)
    \/ CreateTool(Restarted)
    \/ MarkFileAsFailed(Restarted)
    \/ Interrupt(Restarted)
    \/ FileChanged

SpecResume == InitResume /\ [][NextResume]_vars

\* The same single process with the pipeline that has no splitter.
InitManual ==
    /\ InitLeaseVars /\ InitRegVars /\ InitAdvVars /\ InitTblVars /\ InitStartIdle /\ InitRestIdle
    /\ InitIngRuns([p \in Sessions |-> IF p = Restarted THEN MaxRuns ELSE 0])

NextManual ==
    \/ IngestStart(Restarted)
    \/ AdvTry(Restarted)
    \/ IngestLockBody(Restarted)
    \/ AdvExit(Restarted)
    \/ ScanFolder(Restarted)
    \/ RegisterFile(Restarted)
    \/ StreamBatch(Restarted)
    \/ ManualUpsert(Restarted)
    \/ ManualEmbed(Restarted)
    \/ ManualStore(Restarted)
    \/ ManualMarkDone(Restarted)
    \/ MarkFileAsDone(Restarted)
    \/ CreateTool(Restarted)
    \/ MarkFileAsFailed(Restarted)
    \/ Interrupt(Restarted)
    \/ FileChanged

SpecManual == InitManual /\ [][NextManual]_vars

\* bulk_upsert_rows is called with every list of prepared rows, again and
\* again.
InitUpsert == InitLeaseVars /\ InitRegVars /\ InitAdvVars /\ InitIngVars /\ InitTblVars
                 /\ InitStartIdle /\ InitRestIdle

NextUpsert == \E rows \in RowLists : BulkUpsertRowsCall(rows)

SpecUpsert == InitUpsert /\ [][NextUpsert]_vars

\* Adapters of every kind are registered, initialize_all is called once, and
\* wait_until_ready is called at any moment.
InitStartup ==
    /\ InitLeaseVars /\ InitRegVars /\ InitAdvVars /\ InitIngVars /\ InitTblVars
    /\ InitRestIdle
    /\ \E kinds \in [Tools -> AdapterKinds] : InitStartVars(kinds)

NextStartup ==
    \/ InitializeAll
    \/ \E t \in Tools : InitWrapperOk(t)
    \/ \E t \in Tools : InitWrapperRaise(t)
    \/ InitTimeoutFires
    \/ InitializeAllResume
    \/ WaitUntilReady
    \/ WaitTimeElapses
    \/ WaitPoll

SpecStartup == InitStartup /\ [][NextStartup]_vars

\* Calls are registered, end and are cancelled in any order; each canceller
\* calls cancel_call once.
InitCalls == InitOldIdle /\ InitRestIdle

NextCalls ==
    \/ \E call_id \in CallIds \cup {NoCallId}, k \in CallTasks : RegisterCall(call_id, k)
    \/ \E k \in CallTasks : CallTaskEnds(k)
    \/ \E c \in Cancellers, call_id \in CallIds : CancelCall(c, call_id)
    \/ \E c \in Cancellers : CancelCallReturn(c)

SpecCalls == InitCalls /\ [][NextCalls]_vars

\* Two processes start the tool at the same time and then serve run() calls.
InitToolStart == InitOldIdle /\ InitRestIdle

NextToolStart ==
    \/ \E s \in Sessions : ToolInitialize(s)
    \/ \E s \in Sessions : AdvTry(s)
    \/ \E s \in Sessions : AdvSleep(s)
    \/ \E s \in Sessions : ToolLockBody(s)
    \/ \E s \in Sessions : AdvExit(s)
    \/ \E s \in Sessions : ToolRun(s)

SpecToolStart == InitToolStart /\ [][NextToolStart]_vars

\* One ingest_folder call over NumSources sources in any stored state.
InitFolder ==
    /\ InitOldIdle /\ InitCallVars /\ InitToolVars /\ InitLazyIdle /\ InitLimVars /\ InitSlotLog
    /\ InitLastIdle
    /\ \E statuses \in [Sources -> {PENDING, DONE, FAILED}] : InitFolderVars(statuses)

NextFolder ==
    \/ FolderStart
    \/ FolderRegister
    \/ FolderProcess
    \/ FolderMarkFailed
    \/ FolderRollback

SpecFolder == InitFolder /\ [][NextFolder]_vars

\* Deliveries that may die while they hold the lease and jobs that are
\* delivered again. Fairness: the Redis clock runs, every live task and every
\* live renew thread keeps being scheduled, returned jobs are delivered
\* again, and Redis answers an acquire on a free key infinitely often.
TaskStep(t) ==
    \/ TaskAcquire(t)
    \/ TaskLockInfo(t)
    \/ TaskRetryAcquire(t)
    \/ TaskBody(t)
    \/ ReleaseStop(t)
    \/ ReleaseEval(t)
    \/ ReleaseFallbackGet(t)
    \/ ReleaseFallbackDelete(t)
    \/ ReleaseFinally(t)
    \/ Redeliver(t)

RenewStep(t) ==
    \/ RenewWait(t)
    \/ RenewGet(t)
    \/ RenewExpire(t)

NextCrash ==
    \/ \E t \in Tasks : TaskStep(t)
    \/ \E t \in Tasks : RenewStep(t)
    \/ \E t \in Tasks : Crash(t)
    \/ Tick

SpecCrash ==
    /\ InitLease
    /\ [][NextCrash]_vars
    /\ WF_vars(Tick)
    /\ \A t \in Tasks :
          /\ WF_vars(TaskStep(t))
          /\ WF_vars(RenewStep(t))
          /\ SF_vars(TaskAcquire(t) /\ isAcquired'[t])

\* Concurrent initialize() and run() callers of one fresh LazyToolWrapper,
\* as tasks of one event loop or as threads.
InitLazy ==
    /\ InitOldIdle /\ InitCallVars /\ InitToolVars /\ InitFolderIdle /\ InitLimVars /\ InitSlotLog
    /\ InitLastIdle
    /\ \E mode \in {"tasks", "threads"} : InitLazyVars(mode)

NextLazy ==
    \E c \in LazyCallers :
        \/ \E op \in {"initialize", "run"} : LzEnter(c, op)
        \/ LzLockCheck(c)
        \/ LzLockCreate(c)
        \/ LzLockRead(c)
        \/ LzAcquire(c)
        \/ LzRecheck(c)
        \/ LzFactory(c)
        \/ LzInitStart(c)
        \/ LzInitEnd(c)
        \/ LzSetReady(c)
        \/ LzAfterEnsure(c)

SpecLazy == InitLazy /\ [][NextLazy]_vars

\* The registry with a limit that is changed while calls are running.
NextRelimit ==
    \/ NextRegistry
    \/ \E limit \in {NoLimit} \cup 1..MaxLimit : SetConcurrencyLimit(limit)
    \/ \E c \in Callers : ResumeEnterOld(c)

SpecRelimit == InitRegistry /\ [][NextRelimit]_vars

\* The registry with the events of every slot recorded.
NextEvents ==
    \/ \E limit \in {NoLimit} \cup 1..MaxLimit : Register(limit)
    \/ \E c \in Callers : EmitInvoke(c)
    \/ \E c \in Callers : EmitResume(c)
    \/ \E c \in Callers : EmitExit(c)

SpecEvents == InitRegistry /\ [][NextEvents]_vars

(***************************************************************************)
(*                      CLAIMS ABOUT THE REDIS LEASE                        *)
(***************************************************************************)

\* The step is one in which RedisLock.acquire of task t returned True.
AcquireReturnedTrue(t) == ~isAcquired[t] /\ isAcquired'[t]

\* C1: the key holds at most one live owner (a stored owner always has a
\* positive remaining ttl, and the single stored value is a task id), and
\* acquire returns true only in a step that found the key absent or expired
\* and left it stored under the acquirer with a full ttl.
C1_AcquireOnlyWhenFree ==
    /\ [](redis.val # NoOwner => (redis.val \in Tasks /\ redis.ttl \in 1..LockTtl))
    /\ [][\A t \in Tasks :
            AcquireReturnedTrue(t) =>
                /\ redis.val = NoOwner
                /\ redis' = [val |-> t, ttl |-> LockTtl]]_vars

\* C1 witness: a second owner acquired after the first owner's key expired, so
\* two lock objects believe they hold the lock while the store names one.
C1_Witness ==
    \E a, b \in Tasks :
        a # b /\ isAcquired[a] /\ isAcquired[b] /\ taskPc[a] = "body"
              /\ taskPc[b] = "body" /\ redis.val = b

\* The step is one taken by task a inside RedisLock.release that talks to Redis.
ReleaseStepOf(a) ==
    /\ taskPc[a] \in {"relEval", "fbGet", "fbDelete"}
    /\ taskPc'[a] # taskPc[a]

\* C2: release by owner a never deletes a key whose stored owner is another
\* task b, on the Lua path and on the get-then-delete fallback path.
C2_ReleaseNeverDeletesOthers ==
    [][\A a \in Tasks :
         (ReleaseStepOf(a) /\ redis.val # NoOwner /\ redis.val # a) => redis' = redis]_vars

\* C3: the renewal loop of owner a never extends the expiry of a key that is
\* stored under another owner at the moment of the EXPIRE call.
C3_RenewOnlyOwnLease ==
    [][\A a \in Tasks :
         (renewPc[a] = "expire" /\ renewPc'[a] # "expire" /\ redis.val # a)
            => redis' = redis]_vars

C25_CrashedLeaseExpires ==
    \A t \in Tasks :
        /\ (taskPc[t] = "crashed" /\ redis.val = t) ~> (redis.val # t)
        /\ (taskPc[t] = "crashed" /\ redis.val = t
              /\ \E u \in Tasks \ {t} : taskPc[u] # "crashed")
           ~> (\E u \in Tasks \ {t} : redis.val = u /\ isAcquired[u])

\* C25 witness: one delivery crashed holding the lease and the other one
\* holds the key now.
C25_Witness ==
    \E t \in Tasks : \E u \in Tasks \ {t} :
        /\ taskPc[t] = "crashed" /\ renewPc[t] = "dead"
        /\ redis.val = u /\ isAcquired[u] /\ taskPc[u] = "body"

(***************************************************************************)
(*                     CLAIMS ABOUT THE TOOL REGISTRY                       *)
(***************************************************************************)

\* Callers inside an invoke_slot context: __aenter__ completed, __aexit__ not run.
Inside == {c \in Callers : callPc[c] = "inside"}

HasLimit == entry.registered /\ entry.concurrency_limit # NoLimit

\* C4: for a tool registered with limit L (never changed afterwards), at most
\* L callers are inside an invoke_slot context in every reachable state.
C4_ConcurrencyCeiling ==
    HasLimit => Cardinality(Inside) <= entry.concurrency_limit

\* C4 witness: more callers than permits: L callers are inside and another
\* caller is queued on the semaphore.
C4_Witness ==
    /\ HasLimit
    /\ NumCallers > entry.concurrency_limit
    /\ Cardinality(Inside) = entry.concurrency_limit
    /\ \E c \in Callers : callPc[c] = "semWait"

\* The step is one in which caller c arrives at invoke_slot while all L
\* permits of the registered tool are held.
ArrivesAtCapacity(c) ==
    /\ callPc[c] = "idle" /\ callPc'[c] # "idle"
    /\ HasLimit
    /\ Cardinality(Inside) = entry.concurrency_limit

\* C5: for a tool registered with a limit L >= 1 that is not changed, under
\* fair scheduling and with every admitted caller eventually leaving, every
\* caller that queued in invoke_slot is eventually admitted; and a caller that
\* arrives while L slots are held is queued, not rejected with an error.
C5_DelayedNotRejected ==
    /\ \A c \in Callers : (callPc[c] = "semWait") ~> (callPc[c] = "inside")
    /\ [][\A c \in Callers : ArrivesAtCapacity(c) => callPc'[c] = "semWait"]_vars

\* C5 witness: a caller that had to wait for a permit is now inside its slot.
C5_Witness ==
    \E c \in Callers : c \in delayed /\ callPc[c] = "inside"

(***************************************************************************)
(*              CLAIMS ABOUT THE ADVISORY LOCK AND INGESTION                *)
(***************************************************************************)

\* Positions of ingest_folder at which the process has scanned the folder and
\* is reading or writing the checkpoint tables.
ScanningOrMutating ==
    {"register", "stream", "upsert", "embed", "store", "markRows", "markDone",
     "createTool", "markFailed"}

\* C6: of two processes running ingest_folder on the same folder at the same
\* time, at most one is past the lock and scanning or mutating; the two are
\* never both in the scan-and-mutate part of ingest_folder.
C6_OnlyOneScansAndMutates ==
    \A p, q \in Sessions :
        (ingPc[p] \in ScanningOrMutating /\ ingPc[q] \in ScanningOrMutating) => p = q

\* C7: every step of ingest_folder that changes the checkpoint tables (the
\* CSVFile row or the CSVRow table) is taken by a process that holds the
\* advisory lock in that step.
C7_MutationsUnderLock ==
    [][\A p \in Sessions :
         (ingPc'[p] # ingPc[p] /\ <<csvFile, csvRows>>' # <<csvFile, csvRows>>)
            => pgLock = p]_vars

\* C8: when a call of advisory_lock has left its with-block, it has issued
\* pg_advisory_unlock if and only if the database granted it the lock.
C8_UnlockIffAcquired ==
    \A s \in Sessions :
        advPc[s] = "exited" => (advUnlocked[s] <=> advGranted[s])

\* C9: a run of ingest_rows that starts from a stored resume offset K hands to
\* upsert, embedding and indexing only records at positions greater than K.
C9_ResumeSkipsProcessed ==
    ingPc[Restarted] \in {"upsert", "embed", "store", "markRows"} =>
        \A k \in 1..Len(buffer[Restarted]) :
            buffer[Restarted][k] > fileMeta[Restarted].last_row_index

\* The step is the reset done by get_or_register_file for a changed fingerprint.
FingerprintReset ==
    csvFile.exists /\ csvFile'.checksum # csvFile.checksum

\* C10: while the file's status is not DONE, no step other than the
\* fingerprint-change reset lowers the stored last_row_index.
C10_OffsetNeverDecreases ==
    [][(csvFile.exists /\ csvFile.status # DONE /\ ~FingerprintReset)
          => csvFile'.last_row_index >= csvFile.last_row_index]_vars

(***************************************************************************)
(*                    CLAIMS ABOUT THE ROW PIPELINE                         *)
(***************************************************************************)

\* Positions of ingest_rows inside the processing of one batch.
InBatch == {"upsert", "embed", "store", "markRows"}

\* The step is one in which process p finishes a batch of ingest_rows and
\* goes back to the stream for the next one.
BatchEnds(p) == ingPc[p] \in InBatch /\ ingPc'[p] = "stream"

\* Position in the file of the last record of the batch p is processing.
LastPosition(p) == buffer[p][Len(buffer[p])]

\* C11: every step that finishes a batch (after an upsert failure, an
\* embedding failure, an index-write failure or success) leaves the stored
\* last_row_index equal to the position of the batch's last record.
C11_OffsetAdvancedAfterEveryBatch ==
    [][\A p \in Sessions :
         BatchEnds(p) => csvFile'.last_row_index = LastPosition(p)]_vars

\* Batches of the file, the batch of the record at position i, and the
\* position of the last record of batch b.
NumBatches == (NumRows + BatchSize - 1) \div BatchSize
BatchOf(i) == ((i - 1) \div BatchSize) + 1
LastOfBatch(b) == IF b * BatchSize < NumRows THEN b * BatchSize ELSE NumRows

\* The step is one in which the embedding call of p's batch fails.
EmbeddingFails(p) ==
    ingPc[p] = "embed" /\ Len(outcomes'[p]) = Len(outcomes[p]) + 1

\* C12: a failed embedding call ends only its batch: the offset is advanced
\* and the next batch is read; and when ingest_rows has returned after a run
\* in which some batch's embedding failed, every batch was processed, every
\* record of a batch that succeeded is DONE, and the stored offset is at or
\* beyond the last record of the failed batch.
C12_EmbeddingFailureIsolated ==
    /\ [][\A p \in Sessions :
            EmbeddingFails(p) =>
                /\ ingPc'[p] = "stream"
                /\ csvFile'.last_row_index = rowCounter[p]]_vars
    /\ [](\A p \in Sessions :
            (ingPc[p] = "markDone"
               /\ \E b \in 1..Len(outcomes[p]) : outcomes[p][b] = EmbedFailed) =>
                /\ Len(outcomes[p]) = NumBatches
                /\ \A i \in Rows :
                      outcomes[p][BatchOf(i)] = BatchOk => csvRows[i].status = DONE
                /\ \A b \in 1..NumBatches :
                      outcomes[p][b] = EmbedFailed =>
                          csvFile.last_row_index >= LastOfBatch(b))

\* C12 witness: ingest_rows has returned, the embedding of one batch failed
\* and the batch after it succeeded and its records are DONE.
C12_Witness ==
    /\ ingPc[Restarted] = "markDone"
    /\ \E b \in 1..(Len(outcomes[Restarted]) - 1) :
          /\ outcomes[Restarted][b] = EmbedFailed
          /\ outcomes[Restarted][b + 1] = BatchOk
          /\ csvRows[LastOfBatch(b) + 1].status = DONE
          /\ csvFile.last_row_index >= LastOfBatch(b + 1)

\* The embedding call failed on the 2nd batch and on no other, and nothing
\* else failed in the run.
OnlySecondBatchFailed(p) ==
    /\ NumBatches >= 2
    /\ Len(outcomes[p]) = NumBatches
    /\ \A b \in 1..NumBatches :
          outcomes[p][b] = IF b = 2 THEN EmbedFailed ELSE BatchOk

Registers(p) == ingPc[p] = "register" /\ ingPc'[p] \in {"idle", "stream"}
                    /\ fileMeta'[p].exists

\* C14: when ingest_folder meets a file whose stored checksum equals the
\* current one and whose status is DONE, the call ends for that file without
\* entering ingest_rows (no upsert, no embedding, no index write) and the
\* CSVFile row, the CSVRow table and the index are left unchanged.
C14_UnchangedDoneFileSkipped ==
    [][\A p \in Sessions :
         (Registers(p) /\ csvFile.exists /\ csvFile.checksum = diskVersion
                       /\ csvFile.status = DONE)
            => (ingPc'[p] = "idle" /\ dbVars' = dbVars)]_vars

\* C14 witness: a later call of ingest_folder met the unchanged DONE file and
\* returned; the checkpoint row is the one it read.
C14_Witness ==
    /\ ingPc[Restarted] = "idle"
    /\ runsLeft[Restarted] < MaxRuns - 1
    /\ fileMeta[Restarted].exists
    /\ fileMeta[Restarted].status = DONE
    /\ fileMeta[Restarted] = csvFile
    /\ csvFile.checksum = diskVersion

\* C15: get_or_register_file inserts a PENDING row with offset 0 for an
\* unknown path; for a known path whose stored checksum differs from the
\* current one it stores the new checksum with status PENDING and offset 0,
\* whatever the status and offset were; for an unchanged checksum it writes
\* nothing; in each case it returns the stored row.
C15_GetOrRegisterFile ==
    [][\A p \in Sessions :
         Registers(p) =>
            /\ fileMeta'[p] = csvFile'
            /\ ~csvFile.exists =>
                  csvFile' = [exists |-> TRUE, checksum |-> diskVersion,
                              status |-> PENDING, last_row_index |-> 0]
            /\ (csvFile.exists /\ csvFile.checksum # diskVersion) =>
                  csvFile' = [exists |-> TRUE, checksum |-> diskVersion,
                              status |-> PENDING, last_row_index |-> 0]
            /\ (csvFile.exists /\ csvFile.checksum = diskVersion) =>
                  csvFile' = csvFile]_vars

\* C15 witness: a file that had records DONE under its first checksum was
\* registered again under a new checksum and is PENDING at offset 0.
C15_Witness ==
    /\ ingPc[Restarted] = "stream"
    /\ streamPos[Restarted] = 0
    /\ diskVersion > 1
    /\ csvFile = [exists |-> TRUE, checksum |-> diskVersion,
                  status |-> PENDING, last_row_index |-> 0]
    /\ \E i \in Rows : csvRows[i].status = DONE

\* C16: bulk_upsert_rows is idempotent on the checksum: a checksum is stored
\* at most once whatever number of times it was upserted; the stored row has
\* the id the first upsert of its checksum returned and the external_id,
\* file_id, content and fields of the most recent upsert; and every id a call
\* returns is the id the first upsert of that checksum returned.
C16_UpsertIdempotent ==
    /\ \A c \in Checksums : Cardinality(StoredUnder(rowTable, c)) <= 1
    /\ \A c \in Checksums : firstId[c] # NoId => StoredUnder(rowTable, c) # {}
    /\ \A t \in rowTable : /\ t.id = firstId[t.checksum]
                           /\ PayloadOf(t) = lastUpsert[t.checksum]
    /\ \A m \in upsertRet.mapping : m[2] = firstId[m[1]]

\* C16 witness: two ids were drawn and one row is stored, so a call of one
\* row upserted the checksum an earlier call had stored; the row has the
\* first id and the later call returned that id.
C16_Witness ==
    /\ rowSeq = 2
    /\ upsertRet = Returned({<<1, 1>>})
    /\ \E t \in rowTable :
          /\ rowTable = {t}
          /\ t.id = 1
          /\ t.checksum = 1
          /\ t.external_id = 2 /\ t.file_id = 2 /\ t.content = "b" /\ t.fields = "y"

\* C17: in every reachable state of the ingestion pipeline a record whose
\* embedding_status is DONE has a non-null vector_id, and that vector_id is
\* an id under which a vector has been written to the index.
C17_DoneRowHasIndexedVector ==
    \A i \in Rows :
        csvRows[i].status = DONE =>
            /\ csvRows[i].vector # NoVector
            /\ csvRows[i].vector \in vsIndex

(***************************************************************************)
(*                     CLAIMS ABOUT TOOL START-UP                           *)
(***************************************************************************)

\* C18: when an initializer raises during initialize_all, initialize_all
\* raises (it neither returns nor reports a timeout), the exception it raises
\* is that of the initializer that failed first, no initializer is left
\* pending, and every tool whose initializer had completed keeps the ready
\* flag its wrapper gave it.
C18_FirstFailureReRaised ==
    /\ initPc \in {"returned", "timeout"} => failOrder = <<>>
    /\ initPc = "raised" =>
          /\ failOrder # <<>>
          /\ initExc = failOrder[1]
          /\ \A t \in Tools : initTask[t] # TaskPending
          /\ \A t \in Tools :
                initTask[t] = TaskOk =>
                    entryReady[t] = ReadyOrDefault(adapterKind[t], adapterReady[t])

\* The step in which initialize_all resumes after the timeout with an
\* initializer unfinished and no finished one failed.
TimeoutBeforeAllFinished ==
    /\ initPc = "waiting" /\ initPc' # "waiting"
    /\ initTimedOut
    /\ \E t \in Tools : initTask[t] = TaskPending
    /\ \A t \in Tools : initTask[t] # TaskRaised

\* C19: if the timeout elapses before all initializers have finished and none
\* of the finished ones failed, initialize_all cancels every pending
\* initializer and raises the timeout error; and whenever it has raised the
\* timeout error no initializer is pending and no tool whose initializer was
\* cancelled is marked ready.
C19_TimeoutCancelsPending ==
    /\ [][TimeoutBeforeAllFinished =>
            /\ initPc' = "timeout"
            /\ \A t \in Tools :
                  initTask[t] = TaskPending => initTask'[t] = TaskCancelled]_vars
    /\ [](initPc = "timeout" =>
            /\ initTimedOut
            /\ \A t \in Tools : initTask[t] # TaskPending
            /\ \A t \in Tools : initTask[t] = TaskCancelled => ~entryReady[t])

\* C19 witness: the timeout error was raised after one initializer had
\* finished and another was cancelled.
C19_Witness ==
    /\ initPc = "timeout"
    /\ \E t \in Tools : initTask[t] = TaskOk /\ entryReady[t]
    /\ \E t \in Tools : initTask[t] = TaskCancelled

\* A tool reports ready: its adapter's ready attribute if it has one, the
\* registry's flag otherwise.
ReportsReady(t) ==
    IF adapterKind[t] \in {SetsReady, StaysUnready, ReadyAtStart, UnreadyNoInit}
    THEN adapterReady[t] ELSE entryReady[t]

\* C20: wait_until_ready returns only from a poll that finds every tool ready;
\* it raises the timeout error only when the timeout has elapsed, naming
\* exactly the tools not ready at that poll; a poll after the timeout has
\* elapsed ends the call; and called after initialize_all returned, for tools
\* whose initializers set them ready, it does not time out.
C20_WaitUntilReady ==
    /\ [][(waitPc = "polling" /\ waitPc' = "returned") =>
                \A t \in Tools : ReportsReady(t)]_vars
    /\ [][(waitPc = "polling" /\ waitPc' = "timeout") =>
                /\ waitExpired
                /\ notReady' = { t \in Tools : ~ReportsReady(t) }
                /\ notReady' # {}]_vars
    /\ [][(waitPc = "polling" /\ waitExpired
                /\ UNCHANGED <<initTask, initPc, initTimedOut>>) =>
                waitPc' \in {"returned", "timeout"}]_vars
    /\ []((waitAfterInit
              /\ \A t \in Tools : adapterKind[t] \notin {StaysUnready, UnreadyNoInit}) =>
                waitPc # "timeout")

\* C20 witness: wait_until_ready, called after initialize_all returned for
\* tools that all have an initializer, returned.
C20_Witness ==
    /\ waitPc = "returned"
    /\ waitAfterInit
    /\ \A t \in Tools : initTask[t] = TaskOk /\ adapterKind[t] = SetsReady

\* C20 witness of the other outcome: the timeout error names a tool that is
\* not ready while another tool is ready.
C20_TimeoutWitness ==
    /\ waitPc = "timeout"
    /\ notReady # {} /\ notReady # Tools

(***************************************************************************)
(*                     CLAIMS ABOUT THE CALL TABLE                          *)
(***************************************************************************)

\* Caller c enters cancel_call in this step.
EntersCancel(c) == cancelPc[c] = "idle" /\ cancelPc'[c] # "idle"

C22_NotAcquiredStillReady ==
    \A s \in Sessions :
        (toolPc[s] \in {"initialized", "raised"} /\ ~advAcquired[s]) =>
            /\ toolPc[s] = "initialized"
            /\ toolReady[s]
            /\ runResult[s] # NotInitialized

(***************************************************************************)
(*                    CLAIMS ABOUT ingest_folder's LOOP                     *)
(***************************************************************************)

\* C24: an exception raised while one source is processed (inside the try
\* block) leaves that source FAILED and the loop goes on: ingest_folder never
\* ends by an exception of the try block or of its handler, it returns only
\* after the last source, and every source whose processing raised is FAILED
\* when the loop has passed it.
C24_BadSourceDoesNotAbort ==
    /\ folderPc # "raised"
    /\ folderPc = "returned" => folderIdx = NumSources
    /\ \A s \in srcRaised :
          (s < folderIdx \/ folderPc = "returned") => srcStatus[s] = FAILED

(***************************************************************************)
(*                     CLAIMS ABOUT LazyToolWrapper                         *)
(***************************************************************************)

\* C26: whatever the interleaving of the callers, tasks or threads, as long as
\* no call has raised, factory() is called at most once, at most one instance
\* has its initialize() run, and run() never reaches an instance whose
\* initialize() has not completed.
C26_InitializedOnce ==
    (\A c \in LazyCallers : lzPc[c] # "raised") =>
        /\ factoryCalls <= 1
        /\ Cardinality({c \in LazyCallers : instState[c] \notin {"none", "created"}}) <= 1
        /\ ~ranEarly

(***************************************************************************)
(*                 CLAIMS ABOUT set_concurrency_limit                       *)
(***************************************************************************)

\* The calls that were running when the limit was changed and still are.
RunningSinceChange ==
    {c \in InsideSlot : atChange[c] # 0 /\ calls[c] = atChange[c]}

\* C27: after set_concurrency_limit(name, L) with R calls running, the number
\* of calls inside the slot never exceeds max(L, R), and never exceeds L once
\* the R calls that were running at the change have exited.
C27_LimitAfterChange ==
    (limChanges > 0 /\ entry.concurrency_limit # NoLimit) =>
        /\ Cardinality(InsideSlot)
              <= Max(entry.concurrency_limit,
                     Cardinality({c \in Callers : atChange[c] # 0}))
        /\ RunningSinceChange = {} =>
              Cardinality(InsideSlot) <= entry.concurrency_limit

(***************************************************************************)
(*               CLAIMS ABOUT THE EVENTS OF AN INVOCATION SLOT              *)
(***************************************************************************)

\* C28: a slot emits call_started once, when its caller holds the permit and
\* running_count has been incremented, and call_finished once, later, after
\* the decrement and before the permit is released; running_count is never
\* negative.
C28_SlotEvents ==
    /\ [](\A c \in Callers :
            /\ callPc[c] = "inside" => slotLog[c] = <<"call_started">>
            /\ callPc[c] \in {"semWait", "error"} => slotLog[c] = <<>>
            /\ callPc[c] = "idle" =>
                  slotLog[c] \in {<<>>, <<"call_started", "call_finished">>})
    /\ [](entry.registered =>
            /\ entry.running_count >= 0
            /\ entry.running_count = Cardinality(InsideSlot))
    /\ [][\A c \in Callers :
            (callPc[c] # "inside" /\ callPc'[c] = "inside") =>
                /\ lastEvent'.ev = "call_started" /\ lastEvent'.caller = c
                /\ lastEvent'.running_count = entry.running_count + 1
                /\ entry'.running_count = entry.running_count + 1
                /\ \/ entry.semaphore.none
                   \/ c \in entry.semaphore.woken
                   \/ /\ entry.semaphore.value > 0
                      /\ lastEvent'.permits = entry.semaphore.value - 1]_vars
    /\ [][\A c \in Callers :
            (callPc[c] = "inside" /\ callPc'[c] # "inside") =>
                /\ lastEvent'.ev = "call_finished" /\ lastEvent'.caller = c
                /\ lastEvent'.running_count = entry.running_count - 1
                /\ entry'.running_count = entry.running_count - 1
                /\ lastEvent'.permits = entry.semaphore.value
                /\ ~entry.semaphore.none =>
                      entry'.semaphore.value + Cardinality(entry'.semaphore.woken)
                         = entry.semaphore.value + Cardinality(entry.semaphore.woken) + 1]_vars
    /\ [][lastEvent' # lastEvent =>
            \E c \in Callers : slotLog'[c] # slotLog[c] /\ slotLog'[c] # <<>>]_vars

\* C28 witness: one caller is inside a limited slot after call_started and
\* another has left its slot after call_finished.
C28_Witness ==
    \E c, d \in Callers :
        /\ entry.registered /\ ~entry.semaphore.none
        /\ callPc[c] = "inside" /\ Len(slotLog[c]) = 1
        /\ callPc[d] = "idle" /\ Len(slotLog[d]) = 2

(***************************************************************************)
(*               CLAIMS ABOUT TOOLS WITHOUT AN INITIALIZER                  *)
(***************************************************************************)

\* C29: once initialize_all has run, every registered tool whose adapter has
\* no initialize method is marked ready, whatever else the adapter has.
C29_NoInitializerMeansReady ==
    initPc # "idle" =>
        \A t \in Tools : ~HasInitialize(adapterKind[t]) => entryReady[t]

(***************************************************************************)
(*                 CLAIMS ABOUT THE DERIVED STATUS OF A ROW                 *)
(***************************************************************************)

\* C30: over batches and re-ingestion runs the status of a stored row only
\* goes from PENDING to DONE or from PENDING to FAILED: a DONE row is never
\* marked FAILED, a FAILED row is not changed, no row returns to PENDING.
C30_OnlyPendingChanges ==
    [][\A i \in Rows :
          csvRows'[i].status # csvRows[i].status =>
              (csvRows[i].status = PENDING /\ csvRows'[i].status \in {DONE, FAILED})]_vars

(***************************************************************************)
(*          CLAIMS ABOUT A FAILED BATCH OF THE CHUNKING PIPELINE            *)
(***************************************************************************)

\* The step is one in which the embedding call or the index write of p's
\* batch fails in the pipeline with a splitter: the exception handler of
\* step 5 or step 7 runs and the next batch is read.
BatchFails(p) == ingPc[p] \in {"embed", "store"} /\ ingPc'[p] = "stream"

\* C31: when the embedding call or the index write of a batch fails, every
\* record of the batch is FAILED with the error text recorded on it once the
\* offset has been advanced and the next batch is started.
C31_FailedBatchMarkedFailed ==
    [][\A p \in Sessions :
         BatchFails(p) =>
             \A k \in 1..Len(buffer[p]) :
                 /\ csvRows'[buffer[p][k]].status = FAILED
                 /\ csvRows'[buffer[p][k]].error # NoError]_vars

(***************************************************************************)
(*      CANCELLATION OF AN INGESTION  (rag/rag.py, ingest_manager.py)       *)
(***************************************************************************)

\* What is raised at the await at which the task of ingest_folder is
\* cancelled.
CancelledError == "CancelledError"

\* The awaits inside a `try` of ingest_rows' loop body (steps 1, 5, 7, 8), and
\* the awaits inside the `try` of ingest_folder's loop over the files.
InBatchTry == {"upsert", "embed", "store", "markRows"}
InFileTry  == InBatchTry \cup {"stream", "markDone", "createTool"}

\* A handler that takes every exception.
ExceptBaseException(exc) == TRUE

\* `except Exception`: asyncio.CancelledError derives from BaseException, so
\* the clause does not take it.
ExceptException(exc) == exc # CancelledError

\* The exception leaves ingest_folder: `async with advisory_lock` runs its
\* finally block, `async with self.db.session()` closes the session, and the
\* caller's await raises.
LeaveIngestFolder(p) ==
    /\ ingPc' = [ingPc EXCEPT ![p] = "cancelled"]
    /\ pgLock' = PgAdvisoryUnlock(pgLock, p)
    /\ advPc' = [advPc EXCEPT ![p] = "idle"]
    /\ advAttempt' = [advAttempt EXCEPT ![p] = 0]
    /\ advAcquired' = [advAcquired EXCEPT ![p] = FALSE]
    /\ advTries' = [advTries EXCEPT ![p] = 0]
    /\ advGranted' = [advGranted EXCEPT ![p] = FALSE]
    /\ advUnlocked' = [advUnlocked EXCEPT ![p] = FALSE]
    /\ UNCHANGED <<advWait, advRetries, dbVars>>

\* The task running ingest_folder is cancelled: CancelledError is raised at
\* the await it is suspended in, and goes to the innermost enclosing handler
\* that takes it: the batch's `except Exception` (the offset is advanced,
\* after mark_checksums_failed in steps 5 and 7, and the loop continues), the
\* file's `except Exception` (mark_file_as_failed), or the caller.
CancelIngest(p) ==
    /\ ingPc[p] \notin {"idle", "cancelled"}
    /\ IF ingPc[p] \in InBatchTry /\ ExceptException(CancelledError)
       THEN /\ csvRows' = IF ingPc[p] \in {"embed", "store"}
                          THEN MarkChecksumsFailed(csvRows, FailedChecksums(buffer[p]),
                                                   CancelledError)
                          ELSE csvRows
            /\ AdvanceOffset(p)
            /\ UNCHANGED <<vsIndex, advVars>>
       ELSE IF ingPc[p] \in InFileTry /\ ExceptException(CancelledError)
       THEN /\ ingPc' = [ingPc EXCEPT ![p] = "markFailed"]
            /\ UNCHANGED <<dbVars, advVars>>
       ELSE LeaveIngestFolder(p)
    /\ UNCHANGED <<diskVersion, runsLeft, fileMeta, rowCounter, streamPos,
                   buffer, outcomes>>
    /\ IngOnly

\* The caller of ingest_folder has received the CancelledError; it may call
\* ingest_folder again later.
CancelReceived(p) ==
    /\ ingPc[p] = "cancelled"
    /\ ingPc' = [ingPc EXCEPT ![p] = "idle"]
    /\ ResetLocals(p)
    /\ UNCHANGED <<dbVars, diskVersion, runsLeft>>
    /\ UNCHANGED advVars
    /\ IngOnly

\* A single process calls ingest_folder repeatedly and a call may be
\* cancelled at any of its awaits.
NextCancel ==
    \/ IngestStart(Restarted)
    \/ AdvTry(Restarted)
    \/ IngestLockBody(Restarted)
    \/ AdvExit(Restarted)
    \/ ScanFolder(Restarted)
    \/ RegisterFile(Restarted)
    \/ StreamBatch(Restarted)
    \/ BatchUpsert(Restarted)
    \/ BatchEmbed(Restarted)
    \/ BatchStore(Restarted)
    \/ BatchMarkDone(Restarted)
    \/ MarkFileAsDone(Restarted)
    \/ CreateTool(Restarted)
    \/ MarkFileAsFailed(Restarted)
    \/ CancelIngest(Restarted)
    \/ CancelReceived(Restarted)

SpecCancel == InitResume /\ [][NextCancel]_vars

\* C32: a cancellation of an in-flight ingestion, between or during batches,
\* reaches the caller (no handler of ingest_rows or ingest_folder takes it),
\* and leaves the file's status and its stored offset as they were: the
\* source is not marked DONE or FAILED and the offset stays at the value of
\* the last completed advance.
C32_CancelPropagates ==
    [][\A p \in Sessions :
         CancelIngest(p) =>
             /\ ingPc'[p] = "cancelled"
             /\ csvFile'.status = csvFile.status
             /\ csvFile'.last_row_index = csvFile.last_row_index]_vars

\* C32 witness: the call was cancelled during its second batch; the caller
\* has the cancellation, the file is PENDING and the stored offset is the one
\* written after the first batch.
C32_Witness ==
    /\ ingPc[Restarted] = "cancelled"
    /\ rowCounter[Restarted] = 2 * BatchSize
    /\ csvFile.exists /\ csvFile.status = PENDING
    /\ csvFile.last_row_index = BatchSize

(***************************************************************************)
(*                CLAIMS ABOUT THE VALUE OF cancel_call                     *)
(***************************************************************************)

\* C33: a cancel_call that has returned gave False exactly when it found no
\* task under the call id; for a registered call, cancelled by it or already
\* finished, it gave True.
C33_FalseOnlyWhenUnregistered ==
    \A c \in Cancellers :
        cancelPc[c] = "returned" =>
            (cancelRet[c] = RetFalse <=> cancelTask[c] = NoTask)

(***************************************************************************)
(*              CLAIMS ABOUT THE ATTEMPTS OF advisory_lock                  *)
(***************************************************************************)

\* Calls of advisory_lock under weak fairness of their own steps: a lock
\* statement that can be executed is executed and a sleep ends.
FairSpecAdvisory ==
    /\ InitAdvisory
    /\ [][NextAdvisory]_vars
    /\ \A s \in Sessions : WF_vars(AdvTry(s)) /\ WF_vars(AdvSleep(s))

\* The call of session s is in its loop, without wait.
TryingNoWait(s) == advPc[s] \in {"try", "sleep"} /\ ~advWait[s]

\* C34 as stated: with wait=false a call executes at most `retries` lock
\* statements.
C34_AtMostRetriesAttempts ==
    \A s \in Sessions : ~advWait[s] => advTries[s] <= advRetries[s]

\* C34: with wait=false advisory_lock executes at most retries + 1 lock
\* statements (the first attempt and up to `retries` further ones), sleeps
\* after every failed attempt and before the next one, stops at the first
\* attempt that is granted, yields false only when all retries + 1 attempts
\* failed, and always reaches its yield.
C34_AttemptsOfAdvisoryLock ==
    /\ [](\A s \in Sessions : ~advWait[s] => advTries[s] <= advRetries[s] + 1)
    /\ [][\A s \in Sessions :
            (~advWait[s] /\ advTries'[s] = advTries[s] + 1) =>
                /\ advGranted'[s] => (advPc'[s] = "yielded" /\ advAcquired'[s])
                /\ ~advGranted'[s] => advPc'[s] = "sleep"]_vars
    /\ [][\A s \in Sessions :
            (~advWait[s] /\ advPc'[s] = "try" /\ advPc[s] # "try" /\ advTries'[s] > 0)
                => advPc[s] = "sleep"]_vars
    /\ [](\A s \in Sessions :
            (~advWait[s] /\ advPc[s] = "yielded" /\ ~advAcquired[s]) =>
                (advTries[s] = advRetries[s] + 1 /\ ~advGranted[s]))
    /\ \A s \in Sessions : TryingNoWait(s) ~> (advPc[s] = "yielded")

\* C34 witness: a call with wait=false and the largest `retries` has yielded
\* false after retries + 1 failed attempts, the other session holding the
\* lock.
C34_Witness ==
    \E s \in Sessions :
        /\ ~advWait[s] /\ advPc[s] = "yielded" /\ ~advAcquired[s]
        /\ advRetries[s] = MaxRetriesArg /\ advTries[s] = MaxRetriesArg + 1
        /\ pgLock \notin {s, NoSession}

(***************************************************************************)
(*      CANCELLATION WHILE ENTERING A SLOT  (manual/registry.py)            *)
(***************************************************************************)

\* A cancelled waiter that keeps the permit it was handed.
KeepPermit(sem) == sem

\* asyncio.Semaphore.acquire, `except CancelledError` with a future that has
\* its result: the permit goes back (_value += 1) and the next waiter is
\* woken.
GiveBackPermit(sem) == SemWakeUpNext([sem EXCEPT !.value = sem.value + 1])

\* The task of a caller suspended in __aenter__ (in semaphore.acquire, the
\* only suspension of __aenter__) is cancelled: the waiter leaves the queue;
\* when its future already had the permit, the permit is given back;
\* CancelledError leaves __aenter__, so running_count is not incremented and
\* __aexit__ does not run.
CancelEnter(c) ==
    /\ callPc[c] = "semWait"
    /\ LET sem == entry.semaphore
           s1  == [sem EXCEPT !.waiters = RemoveWaiter(sem.waiters, c),
                              !.woken = sem.woken \ {c}]
       IN /\ entry' = [entry EXCEPT !.semaphore =
                          IF c \in sem.woken THEN GiveBackPermit(s1) ELSE s1]
          /\ callPc' = [callPc EXCEPT ![c] =
                          IF c \in sem.woken THEN "cancelledWithPermit" ELSE "cancelled"]
    /\ UNCHANGED <<calls, delayed>>
    /\ RegOnly

\* The registry's slots with callers that may be cancelled while they enter;
\* a cancellation inside the tool body ends the body (ExitSlot).
NextSlotCancel ==
    \/ NextRegistry
    \/ \E c \in Callers : CancelEnter(c)

SpecSlotCancel == InitRegistry /\ [][NextSlotCancel]_vars

\* Callers that were handed a permit and have not resumed in __aenter__ yet.
Woken == IF HasLimit THEN entry.semaphore.woken ELSE {}

\* C35: for a tool with an unchanged limit L, the semaphore's free permits
\* plus the callers holding a permit (inside a slot, or handed the permit and
\* not yet resumed) are L in every reachable state, also after a caller was
\* cancelled between being handed the permit and completing __aenter__.
C35_PermitConservation ==
    HasLimit =>
        entry.semaphore.value + Cardinality(Woken) + Cardinality(Inside)
            = entry.concurrency_limit

\* C35 witness: a caller was cancelled after it had been handed the permit,
\* and another caller is inside a slot of the same tool.
C35_Witness ==
    /\ HasLimit
    /\ \E c \in Callers : callPc[c] = "cancelledWithPermit"
    /\ Inside # {}

(***************************************************************************)
(*          CLAIMS ABOUT WAITERS ACROSS set_concurrency_limit               *)
(***************************************************************************)

\* The limit may be changed while callers wait; the event loop runs every
\* task that is ready and every admitted caller eventually leaves its slot.
FairSpecRelimit ==
    /\ SpecRelimit
    /\ \A c \in Callers :
          WF_vars(ResumeEnter(c)) /\ WF_vars(ResumeEnterOld(c)) /\ WF_vars(ExitSlot(c))

\* Caller c queued on the semaphore that set_concurrency_limit replaced and
\* is still waiting.
WaitingSinceChange(c) ==
    /\ callPc[c] = "semWait"
    /\ limChanges > 0
    /\ ~oldSem.none
    /\ \E k \in 1..Len(oldSem.waiters) : oldSem.waiters[k] = c

\* C36: a caller that was waiting for a slot when set_concurrency_limit
\* replaced the tool's semaphore is eventually admitted.
C36_WaiterAdmittedAfterChange ==
    \A c \in Callers : WaitingSinceChange(c) ~> (callPc[c] = "inside")

(***************************************************************************)
(*        CLAIMS ABOUT running_count ACROSS REGISTRATIONS                   *)
(***************************************************************************)

\* The name is registered, registered again and unregistered while callers
\* open and close invocation slots.
NextRereg ==
    \/ RegisterAgain
    \/ Unregister
    \/ \E c \in Callers : SlotEnter(c)
    \/ \E c \in Callers : SlotExit(c)

InitRereg == InitOldIdle /\ InitRestIdle

SpecRereg == InitRereg /\ [][NextRereg]_vars

\* The callers holding an invocation slot of the name.
SlotsHeld == {c \in Callers : ctxEntry[c] # NoObject}

\* C37: while the name is registered, the running_count get_status reports
\* for it equals the number of invocation slots held for the name, across
\* registrations, re-registrations, unregistrations, slot entries and exits.
C37_RunningCountIsSlotsHeld ==
    toolsEntry # NoObject => GetStatusRunningCount = Cardinality(SlotsHeld)

(***************************************************************************)
(*                  CLAIMS ABOUT THE STDIO TRANSPORT                        *)
(***************************************************************************)

\* The transport serves tools/call and tools/cancel requests for one tool,
\* which is registered (with or without a limit) at some point of the run.
InitStdio ==
    /\ InitOldIdle /\ InitToolVars /\ InitMoreIdle
    /\ callTable = [i \in ClientIds |-> NoTask]
    /\ taskState = [k \in Requests |-> NotCreated]
    /\ cancelPc = [k \in Cancellers |-> "idle"]
    /\ cancelId = [k \in Cancellers |-> NoCallId]
    /\ cancelTask = [k \in Cancellers |-> NoTask]
    /\ cancelled = [k \in Cancellers |-> FALSE]
    /\ cancelRet = [k \in Cancellers |-> NoReturn]

NextStdio ==
    \/ \E limit \in {NoLimit} \cup 1..MaxLimit : Register(limit)
    \/ \E c \in Requests, id \in ClientIds : ToolsCall(c, id)
    \/ \E c \in Requests : RunToolStart(c)
    \/ \E c \in Requests : RunToolResume(c)
    \/ \E c \in Requests : RunnerEnds(c)
    \/ \E c \in Requests : AwaitReturns(c)
    \/ \E c \in Requests : StreamEnds(c)
    \/ \E c \in Requests : FinallyResume(c)
    \/ \E k \in CancelRequests, id \in ClientIds : CancelCall(k, id)
    \/ \E k \in CancelRequests : CancelCallReturn(k)

SpecStdio == InitStdio /\ [][NextStdio]_vars

\* The steps of request c and of its runner task; at most one of them is
\* enabled at a time.
RequestStep(c) ==
    \/ RunToolStart(c)
    \/ RunToolResume(c)
    \/ RunnerEnds(c)
    \/ AwaitReturns(c)
    \/ StreamEnds(c)
    \/ FinallyResume(c)

\* The event loop runs every task that is ready, and every tool run and
\* every stream ends.
FairSpecStdio ==
    /\ SpecStdio
    /\ \A c \in Requests : WF_vars(RequestStep(c))

\* The runner task of request c is running (created and not done).
InFlight(c) == rpcPc[c] = "awaitTask" /\ ~TaskDone(taskState[c])

\* The step is one in which request c, its task ended, takes its result and
\* runs its finally block.
Completes(c) ==
    /\ rpcPc[c] \in {"awaitTask", "streaming"}
    /\ rpcPc'[c] \in {"finallyWait", "done"}

\* C38: the completion of one tools/call leaves the task of every other
\* call as it is, whatever call_id the two carry; and a tools/cancel for an
\* id carried by calls in flight requests the cancellation of one of them.
C38_CompletionCancelsNoOtherCall ==
    /\ [][\A c, d \in Requests :
            (c # d /\ Completes(c)) => taskState'[d] = taskState[d]]_vars
    /\ [][\A k \in Cancellers :
            (EntersCancel(k) /\ \E c \in Requests : InFlight(c) /\ rpcId[c] = cancelId'[k])
                => \E c \in Requests :
                      /\ InFlight(c) /\ rpcId[c] = cancelId'[k]
                      /\ taskState'[c] = Cancelling]_vars

\* C39: a tools/call request with a request id gets exactly one JSON-RPC
\* response, whatever the call's outcome (unknown tool, value, stream, tool
\* exception, cancellation): never more than one, one by the time
\* _run_tool_and_stream has ended, and eventually one once it was accepted.
C39_ExactlyOneResponse ==
    /\ [](\A c \in Requests :
            /\ responses[c] <= 1
            /\ rpcPc[c] \in {"finallyWait", "done"} => responses[c] = 1)
    /\ \A c \in Requests : (rpcPc[c] = "accepted") ~> (responses[c] = 1)

\* C39 witness: one request ended cancelled and another ended after
\* streaming its result, each with its one response.
C39_Witness ==
    \E c, d \in Requests :
        /\ rpcPc[c] = "done" /\ rpcResult[c] = CancelledResult /\ responses[c] = 1
        /\ rpcPc[d] = "done" /\ rpcResult[d] = StreamResult /\ responses[d] = 1

\* Request c has been accepted and is waiting for an invocation slot.
WaitingForSlot(c) == rpcPc[c] = "slotWait"

\* C40: a tools/cancel for the call_id of a request that is waiting for an
\* invocation slot finds that request's call and cancels it (so that it
\* reports cancelled=true and the tool body of the call is never run).
C40_CancelReachesWaitingCall ==
    [][\A k \in Cancellers, c \in Requests :
         (EntersCancel(k) /\ WaitingForSlot(c) /\ cancelId'[k] = rpcId[c])
            => (cancelTask'[k] = c /\ cancelled'[k])]_vars

====
